---- MODULE Spec2Model ----
(***************************************************************************)
(* The incremental structured-output parser engine of kalosm: the parsers  *)
(* of kalosm-sample/src/structured_parser and of kalosm-language/src/tool, *)
(* driven one chunk of bytes at a time along a chain of partial states.    *)
(*                                                                         *)
(* Bytes are their numeric codes (0..255), byte strings are sequences of   *)
(* codes.  A parse outcome is one of                                       *)
(*    Finished{result, remaining}, Incomplete{new_state, required_next},   *)
(* or the error channel Err.  A required_next hint is a Cow<'static, str>: *)
(* its text and whether it is Owned or Borrowed.                           *)
(***************************************************************************)
EXTENDS Integers, Sequences, FiniteSets, TLC

VARIABLES
    grammar,    \* the parser under test (immutable after construction)
    state,      \* the PartialState threaded through the Incomplete results
    before,     \* the state the latest parse call was given
    status,     \* "running" | "finished" | "failed": where the state chain is
    last,       \* the outcome of the latest parse call
    chunks,     \* the inputs of the parse calls made so far, in order
    tried,      \* the candidate inputs tried from the current state, each
                \* with the state it was given and the outcome it got
    step,       \* what ToolManager::run_step has done with the action that
                \* was generated: its add_token calls, its tool runs, its result
    consumer    \* a threading Consumer: its shared fields, its queue, where
                \* each worker thread and each calling thread stands, and what
                \* the delegate has been told

vars == <<grammar, state, before, status, last, chunks, tried, step, consumer>>

\* number of parse calls made on this chain
calls == Len(chunks)

\* the input of the latest parse call
chunk == chunks[Len(chunks)]

----------------------------------------------------------------------------
(* Bounds of the exploration *)

\* longest input of one parse call, in bytes
MaxChunkLen == 2
\* most parse calls along one state chain
MaxCalls == 3
\* longest input of one parse call of a RepeatParser, in bytes
MaxRepeatInput == 3
\* most bytes passed along one state chain, over all its calls
MaxInput == 5
\* most candidate inputs tried from one state before one is taken
MaxTries == 2

----------------------------------------------------------------------------
(* Bytes *)

NL == 10
SPACE == 32
DOT == 46
QUOTE == 34
BACKSLASH == 92

\* u8::is_ascii_alphanumeric
IsAsciiAlphanumeric(c) == (c \in 48..57) \/ (c \in 65..90) \/ (c \in 97..122)

\* char::is_whitespace on char::from(u8): the White_Space code points below 256
IsWhitespace(c) == c \in {9, 10, 11, 12, 13, 32, 133, 160}

\* a faulty variant of the tail: the bytes are taken from the front
Tail0FromFront(s, i) == SubSeq(s, 1, Len(s) - i)

\* the tail of a slice: &input[i..] with i counted from 0
Tail0(s, i) == SubSeq(s, i + 1, Len(s))

\* the head of a slice: &input[..i]
Head0(s, i) == SubSeq(s, 1, i)

\* the concatenation of a sequence of byte strings
RECURSIVE Flat(_)
Flat(ss) == IF ss = <<>> THEN <<>> ELSE Head(ss) \o Flat(Tail(ss))

\* all bytes passed to parse so far, in order
fed == Flat(chunks)

\* all byte strings over alphabet A of length at most n
SeqsUpTo(A, n) == UNION {[1..k -> A] : k \in 0..n}

----------------------------------------------------------------------------
(* Parse outcomes *)

Finished(result, remaining) ==
    [t |-> "Finished", result |-> result, remaining |-> remaining]

Incomplete(new_state, required_next) ==
    [t |-> "Incomplete", new_state |-> new_state, required_next |-> required_next]

Err == [t |-> "Err"]

\* Cow::Borrowed(s) and Cow::Owned(s)
Borrowed(s) == [owned |-> FALSE, s |-> s]
Owned(s) == [owned |-> TRUE, s |-> s]

\* Default::default() of Cow<'static, str>: the borrowed empty string
DefaultHint == Borrowed(<<>>)

\* Result<PartialState, E> slots of the choice and index states
Ok(s) == [ok |-> TRUE, v |-> s]

\* a faulty variant of the failed slot: a live slot with a literal's fresh state
FailedStillLive == Ok([offset |-> 0])

Failed == [ok |-> FALSE]

\* the unit value ()
Unit == "unit"

----------------------------------------------------------------------------
(* The unit parser: impl Parser for () *)

UnitParse(input) == Finished(Unit, input)

----------------------------------------------------------------------------
(* LiteralParser (kalosm-sample structured_parser/literal.rs, modelled from *)
(* the specification, section 4.1): matches a fixed byte string, the state *)
(* is the offset already matched.  g.static tells whether the literal is a *)
(* &'static str, whose hint is Borrowed, or a String, whose hint is Owned. *)

LiteralHint(g, s) == IF g.static THEN Borrowed(s) ELSE Owned(s)

LiteralCreateState == [offset |-> 0]

\* a faulty variant: a mismatch is noticed only once the input covers the
\* rest of the literal
LiteralParseLateMismatch(g, st, input) ==
    LET rest == Tail0(g.literal, st.offset)
        n == IF Len(input) < Len(rest) THEN Len(input) ELSE Len(rest)
    IN  IF n = Len(rest)
        THEN (IF \E i \in 1..n : input[i] # rest[i] THEN Err
              ELSE Finished(Unit, Tail0(input, n)))
        ELSE Incomplete([offset |-> st.offset + n], LiteralHint(g, Tail0(rest, n)))

LiteralParse(g, st, input) ==
    LET rest == Tail0(g.literal, st.offset)
        n == IF Len(input) < Len(rest) THEN Len(input) ELSE Len(rest)
    IN  IF \E i \in 1..n : input[i] # rest[i] THEN Err
        ELSE IF n = Len(rest) THEN Finished(Unit, Tail0(input, n))
        ELSE Incomplete([offset |-> st.offset + n], LiteralHint(g, Tail0(rest, n)))

----------------------------------------------------------------------------
(* IntegerParser (structured_parser/integer.rs, modelled from the          *)
(* specification, section 4.2 and the worked example of section 8): an     *)
(* optional '-', digits; fails as soon as no continuation can fall in      *)
(* [min,max]; finishes on a terminator, or as soon as no further digit     *)
(* could keep the value in range.                                          *)

IntegerCreateState == [state |-> "Initial", value |-> 0, positive |-> TRUE]

IntegerSigned(st) == IF st.positive THEN st.value ELSE 0 - st.value

IntegerInRange(g, v) == g.min <= v /\ v <= g.max

\* whether one more digit could still give a value of the range
IntegerCouldExtend(g, st) ==
    IF st.positive THEN st.value * 10 <= g.max ELSE 0 - st.value * 10 >= g.min

RECURSIVE IntegerLoop(_, _, _, _)
IntegerLoop(g, st, input, i) ==
    IF i > Len(input) THEN Incomplete(st, DefaultHint)
    ELSE LET c == input[i] IN
         IF c \in 48..57 THEN
            LET st2 == [st EXCEPT !.state = "AfterDigit",
                                  !.value = st.value * 10 + (c - 48)]
            IN  IF IntegerCouldExtend(g, st2) THEN IntegerLoop(g, st2, input, i + 1)
                ELSE IF IntegerInRange(g, IntegerSigned(st2))
                     THEN Finished(IntegerSigned(st2), Tail0(input, i))
                     ELSE Err
         ELSE IF c = 45 THEN
            IF st.state = "Initial"
            THEN IntegerLoop(g, [st EXCEPT !.state = "AfterSign", !.positive = FALSE],
                             input, i + 1)
            ELSE Err
         ELSE IF st.state = "AfterDigit" /\ IntegerInRange(g, IntegerSigned(st))
              THEN Finished(IntegerSigned(st), Tail0(input, i - 1))
              ELSE Err

IntegerParse(g, st, input) == IntegerLoop(g, st, input, 1)

----------------------------------------------------------------------------
(* OneLine (kalosm-language tool/mod.rs) *)

OneLineCreateState == [all_whitespace |-> TRUE, bytes |-> <<>>]

\* the guard of the bail at the head of the loop body
OneLineRejects(c) == ~IsAsciiAlphanumeric(c) \/ c \in {SPACE, DOT, NL}

\* String::from_utf8_lossy(&bytes).to_string(): an ASCII byte is its own
\* character; a byte that is not part of a well-formed sequence becomes
\* U+FFFD (a lone byte >= 128 never is)
FromUtf8Lossy(bytes) ==
    [i \in 1..Len(bytes) |-> IF bytes[i] < 128 THEN bytes[i] ELSE 65533]

RECURSIVE OneLineLoop(_, _, _)
OneLineLoop(st, input, i) ==
    IF i > Len(input) THEN Incomplete(st, DefaultHint)
    ELSE LET c == input[i] IN
         IF OneLineRejects(c) THEN Err
         ELSE LET aw == st.all_whitespace /\ IsWhitespace(c) IN
              IF c = NL
              THEN IF aw THEN Err
                   ELSE Finished(FromUtf8Lossy(st.bytes), Tail0(input, i))
              ELSE OneLineLoop([all_whitespace |-> aw, bytes |-> Append(st.bytes, c)],
                               input, i + 1)

\* a faulty variant: the line is cut at the first newline whatever it holds
OneLineParseAnyLine(st, input) ==
    LET nl == {i \in 1..Len(input) : input[i] = NL} IN
    IF nl = {} THEN Incomplete([st EXCEPT !.bytes = st.bytes \o input], DefaultHint)
    ELSE LET i == CHOOSE i \in nl : \A j \in nl : i <= j IN
         Finished(FromUtf8Lossy(st.bytes \o Head0(input, i - 1)), Tail0(input, i))

OneLineParse(st, input) ==
    IF input = <<>> THEN Incomplete(st, DefaultHint)
    ELSE OneLineLoop(st, input, 1)

----------------------------------------------------------------------------
(* StringParser (structured_parser/string.rs) *)

\* the character filters used: the default |_| true, and narrower ones
CharacterFilter(g, c) ==
    CASE g.filter = "all" -> TRUE
      [] g.filter = "alnum" -> IsAsciiAlphanumeric(c)
      [] g.filter = "noquote" -> c # QUOTE

\* String::len() after pushing each byte as the char of that code point:
\* a code point below 128 takes one byte of UTF-8, one of 128..255 takes two
Utf8Len(s) == Len(s) + Cardinality({i \in 1..Len(s) : s[i] >= 128})

StringCreateState ==
    [progress |-> "BeforeQuote", string |-> <<>>, next_char_escaped |-> FALSE]

\* StringParserState::new
StringParserStateNew(s) ==
    [progress |-> IF Len(s) > 0 /\ s[1] = QUOTE THEN "InString" ELSE "BeforeQuote",
     next_char_escaped |-> Len(s) > 0 /\ s[Len(s)] = BACKSLASH,
     string |-> s]

\* a faulty variant of the Incomplete state: the pending escape is dropped
StringIncompleteStateNoEscape(progress, string, next_char_escaped) ==
    [progress |-> progress, string |-> string, next_char_escaped |-> FALSE]

\* the state of the Incomplete result, from the loop's local variables
StringIncompleteState(progress, string, next_char_escaped) ==
    [progress |-> progress, string |-> string,
     next_char_escaped |-> next_char_escaped]

\* the filter test at the head of the InString arm; state0 is the state the
\* call was given
StringFilterRejects(g, state0, byte) ==
    (state0.next_char_escaped \/ byte # QUOTE) /\ ~CharacterFilter(g, byte)

\* the early length test of the InString arm
StringTooLong(g, string, byte) == Utf8Len(string) = g.max /\ byte # QUOTE

\* a faulty variant of the range test at the closing quote: no lower bound
StringInRangeNoMin(g, string) == Utf8Len(string) <= g.max

\* self.len_range.contains(&string.len())
StringInRange(g, string) == g.min <= Utf8Len(string) /\ Utf8Len(string) <= g.max

\* a faulty variant of the BeforeQuote test: any byte opens the string
StringOpensOnAny(byte) == TRUE

\* the BeforeQuote arm: *byte == b'"'
StringOpens(byte) == byte = QUOTE

RECURSIVE StringLoop(_, _, _, _, _, _, _)
StringLoop(g, state0, progress, string, nce, input, i) ==
    IF i > Len(input)
    THEN Incomplete(StringIncompleteState(progress, string, nce), Borrowed(<<>>))
    ELSE LET byte == input[i] IN
         IF progress = "BeforeQuote"
         THEN IF StringOpens(byte)
              THEN StringLoop(g, state0, "InString", string, nce, input, i + 1)
              ELSE Err
         ELSE IF StringFilterRejects(g, state0, byte) THEN Err
         ELSE IF StringTooLong(g, string, byte) THEN Err
         ELSE IF nce
              THEN StringLoop(g, state0, progress, Append(string, byte), FALSE,
                              input, i + 1)
         ELSE IF byte = QUOTE
              THEN IF ~StringInRange(g, string)
                   THEN Err
                   ELSE Finished(string, Tail0(input, i))
         ELSE IF byte = BACKSLASH
              THEN StringLoop(g, state0, progress, string, TRUE, input, i + 1)
         ELSE StringLoop(g, state0, progress, Append(string, byte), nce,
                         input, i + 1)

\* a faulty variant of the entry: the pending escape of the state is not read
StringParseForgetsEscape(g, st, input) ==
    StringLoop(g, st, st.progress, st.string, FALSE, input, 1)

StringParse(g, st, input) ==
    StringLoop(g, st, st.progress, st.string, st.next_char_escaped, input, 1)

----------------------------------------------------------------------------
(* Grammars.  A grammar is a record whose field k names the parser type:   *)
(*   "unit"                         ()                                     *)
(*   "lit"     literal, static      LiteralParser                          *)
(*   "int"     min, max             IntegerParser                          *)
(*   "oneline"                      OneLine                                *)
(*   "string"  min, max, filter     StringParser                           *)
(*   "repeat"  parser, min, max     RepeatParser                           *)
(*   "index"   parsers              IndexParser                            *)
(*   "then"    parser1, parser2     SequenceParser                         *)
(*   "or"      parser1, parser2     ChoiceParser                           *)
(*   "map"     parser, map          MapOutputParser                        *)
(*   "boxed"   parser               ArcParser(AnyParser(parser))           *)
(*   "Literal" | "Num" | "Either" | "Then"   the StructureParser nodes     *)
(***************************************************************************)

RECURSIVE Parse(_, _, _)
RECURSIVE CreateParserState(_)

\* number of leading bytes two strings share
RECURSIVE CommonBytes(_, _)
CommonBytes(a, b) ==
    IF a = <<>> \/ b = <<>> THEN 0
    ELSE IF a[1] # b[1] THEN 0
    ELSE 1 + CommonBytes(Tail(a), Tail(b))

----------------------------------------------------------------------------
(* MapOutputParser (structured_parser/map.rs, from the specification,      *)
(* section 4.8): a pure transform applied at Finished only.  The maps are  *)
(* the closures of tool/mod.rs.                                            *)

\* Action::Thought, Action::Tool, Action::Answer
Thought(text) == [action |-> "Thought", text |-> text]
ToolAction(index, input) == [action |-> "Tool", index |-> index, input |-> input]
Answer(text) == [action |-> "Answer", text |-> text]

\* Either::Left, Either::Right
Left(x) == [side |-> "Left", v |-> x]
Right(x) == [side |-> "Right", v |-> x]

ApplyMap(map, out) ==
    CASE map = "second" -> out[2]
      [] map = "box" -> out
      [] map = "action" ->
            IF out.side = "Right" THEN Answer(out.v)
            ELSE IF out.v.side = "Left" THEN Thought(out.v.v)
            ELSE ToolAction(out.v.v[1], out.v.v[2])

MapOutputParse(g, st, input) ==
    LET r == Parse(g.parser, st, input) IN
    IF r.t = "Finished" THEN Finished(ApplyMap(g.map, r.result), r.remaining)
    ELSE r

----------------------------------------------------------------------------
(* SequenceParser (structured_parser/then.rs, from the specification,      *)
(* section 4.5)                                                            *)

FirstParser(s) == [phase |-> "FirstParser", s |-> s]
SecondParser(s, o) == [phase |-> "SecondParser", s |-> s, o |-> o]

SequenceSecond(g, st2, o1, input) ==
    LET r2 == Parse(g.parser2, st2, input) IN
    CASE r2.t = "Finished" -> Finished(<<o1, r2.result>>, r2.remaining)
      [] r2.t = "Incomplete" ->
            Incomplete(SecondParser(r2.new_state, o1), r2.required_next)
      [] OTHER -> r2

\* a faulty variant: the hand-off takes a call of its own, the second parser
\* starting on the next call's input
SequenceParseDefersSecond(g, st, input) ==
    IF st.phase = "FirstParser"
    THEN LET r1 == Parse(g.parser1, st.s, input) IN
         CASE r1.t = "Finished" ->
                Incomplete(SecondParser(CreateParserState(g.parser2), r1.result),
                           DefaultHint)
           [] r1.t = "Incomplete" ->
                Incomplete(FirstParser(r1.new_state), r1.required_next)
           [] OTHER -> r1
    ELSE SequenceSecond(g, st.s, st.o, input)

SequenceParse(g, st, input) ==
    IF st.phase = "FirstParser"
    THEN LET r1 == Parse(g.parser1, st.s, input) IN
         CASE r1.t = "Finished" ->
                SequenceSecond(g, CreateParserState(g.parser2), r1.result,
                               r1.remaining)
           [] r1.t = "Incomplete" ->
                Incomplete(FirstParser(r1.new_state), r1.required_next)
           [] OTHER -> r1
    ELSE SequenceSecond(g, st.s, st.o, input)

----------------------------------------------------------------------------
(* ChoiceParser (structured_parser/or.rs, from the specification,          *)
(* section 4.6)                                                            *)

ChoiceParserStateNew(s1, s2) == [state1 |-> Ok(s1), state2 |-> Ok(s2)]

\* the longest common byte prefix of two hints
ChoiceCommonPrefix(h1, h2) == Owned(Head0(h1.s, CommonBytes(h1.s, h2.s)))

ChoiceParse(g, st, input) ==
    LET r1 == IF st.state1.ok THEN Parse(g.parser1, st.state1.v, input) ELSE Err
        r2 == IF st.state2.ok THEN Parse(g.parser2, st.state2.v, input) ELSE Err
        slot(r) == IF r.t = "Incomplete" THEN Ok(r.new_state) ELSE Failed
    IN  IF r1.t = "Panic" THEN r1
        ELSE IF r2.t = "Panic" THEN r2
        ELSE IF r1.t = "Finished" THEN Finished(Left(r1.result), r1.remaining)
        ELSE IF r2.t = "Finished" THEN Finished(Right(r2.result), r2.remaining)
        ELSE IF r1.t = "Err" /\ r2.t = "Err" THEN Err
        ELSE Incomplete([state1 |-> slot(r1), state2 |-> slot(r2)],
                        IF r1.t = "Incomplete" /\ r2.t = "Incomplete"
                        THEN ChoiceCommonPrefix(r1.required_next, r2.required_next)
                        ELSE IF r1.t = "Incomplete" THEN r1.required_next
                        ELSE r2.required_next)

----------------------------------------------------------------------------
(* IndexParser (kalosm-language tool/mod.rs) *)

None == [some |-> FALSE]
Some(x) == [some |-> TRUE, v |-> x]

IndexCreateState(g) ==
    [states |-> [i \in 1..Len(g.parsers) |-> Ok(CreateParserState(g.parsers[i]))]]

\* the reduction of the hint kept so far (r) with the hint of the next
\* Incomplete alternative (new): the three arms of the match on the two Cows
IndexReduceHint(r, new) ==
    LET common_bytes == CommonBytes(r.s, new.s) IN
    IF ~r.owned THEN Borrowed(Tail0(r.s, common_bytes))
    ELSE IF ~new.owned THEN Borrowed(Tail0(new.s, common_bytes))
    ELSE Owned(Head0(r.s, common_bytes))

\* i counts the alternatives from 1; the index reported is i - 1
RECURSIVE IndexLoop(_, _, _, _, _, _)
IndexLoop(g, states, has_incomplete_option, required_next, input, i) ==
    IF i > Len(g.parsers)
    THEN Incomplete([states |-> states],
                    IF required_next.some THEN required_next.v ELSE DefaultHint)
    ELSE LET last_index == Len(g.parsers) - 1 IN
         IF states[i].ok
         THEN LET result == Parse(g.parsers[i], states[i].v, input) IN
              CASE result.t = "Finished" ->
                     Finished(<<i - 1, result.result>>, result.remaining)
                [] result.t = "Incomplete" ->
                     IndexLoop(g, [states EXCEPT ![i] = Ok(result.new_state)], TRUE,
                               IF required_next.some
                               THEN Some(IndexReduceHint(required_next.v,
                                                         result.required_next))
                               ELSE Some(result.required_next),
                               input, i + 1)
                [] OTHER ->
                     IF ~has_incomplete_option /\ i - 1 = last_index THEN Err
                     ELSE IndexLoop(g, [states EXCEPT ![i] = Failed],
                                    has_incomplete_option, required_next, input, i + 1)
         ELSE IF ~has_incomplete_option /\ i - 1 = last_index THEN Err
              ELSE IndexLoop(g, states, has_incomplete_option, required_next,
                             input, i + 1)

\* a faulty variant: the alternatives are tried from the last to the first
IndexParseRightBias(g, st, input) ==
    LET n == Len(g.parsers)
        rev(q) == [i \in 1..n |-> q[n + 1 - i]]
        r == IndexLoop([g EXCEPT !.parsers = rev(g.parsers)], rev(st.states),
                       FALSE, None, input, 1)
    IN  CASE r.t = "Finished" ->
               Finished(<<n - 1 - r.result[1], r.result[2]>>, r.remaining)
          [] r.t = "Incomplete" ->
               Incomplete([states |-> rev(r.new_state.states)], r.required_next)
          [] OTHER -> r

\* a faulty variant: one failed alternative fails the whole parser
IndexParseStrict(g, st, input) ==
    LET r == IndexLoop(g, st.states, FALSE, None, input, 1) IN
    IF /\ r.t = "Incomplete"
       /\ \E i \in 1..Len(g.parsers) : ~r.new_state.states[i].ok
    THEN Err ELSE r

\* the panic of `self.parsers.len() - 1` on an empty list in a build with
\* overflow checks
SubtractWithOverflow == [t |-> "Panic", e |-> "attempt to subtract with overflow"]

\* last_index is computed before the loop.  On an empty list the
\* subtraction overflows: it panics in a build with overflow checks (debug)
\* and wraps to usize::MAX in one without (release), where the loop then has
\* nothing to go through; g.overflow_checks tells the build.
IndexParse(g, st, input) ==
    IF Len(g.parsers) = 0 /\ g.overflow_checks THEN SubtractWithOverflow
    ELSE IndexLoop(g, st.states, FALSE, None, input, 1)

----------------------------------------------------------------------------
(* RepeatParser (structured_parser/repeat.rs) *)

\* most iterations of the loop of one parse call that are followed; a call
\* that needs more does not return within the bound
MaxLoop == 6

Diverges == [t |-> "Diverges"]

RepeatCreateState(g) ==
    [new_state_in_progress |-> FALSE,
     last_state |-> CreateParserState(g.parser),
     outputs |-> <<>>]

\* a faulty variant of the comparison: one repetition too late
RepeatReachedMaxLate(g, outputs) == g.max + 1 = Len(outputs)

\* self.length_range.end() == &state.outputs.len()
RepeatReachedMax(g, outputs) == g.max = Len(outputs)

\* a faulty variant of the guard: it forgets the repetition in progress
RepeatMayEndIgnoringProgress(g, st) ==
    g.min <= Len(st.outputs) /\ Len(st.outputs) <= g.max

\* the guard of the Err arm
RepeatMayEnd(g, st) ==
    ~st.new_state_in_progress /\ g.min <= Len(st.outputs) /\ Len(st.outputs) <= g.max

\* a faulty variant of the probe: it never has a hint
RepeatProbeNothing(g, st, remaining) == None

\* the hint after a repetition that ended exactly at the end of the input:
\* the fresh sub-parser probed on the (empty) remaining input
RepeatProbe(g, st, remaining) ==
    LET probe == Parse(g.parser, st.last_state, remaining) IN
    IF probe.t = "Incomplete" THEN Some(probe.required_next) ELSE None

\* the state after the sub-parser finished with result
RepeatAfterFinished(g, st, result) ==
    [new_state_in_progress |-> FALSE,
     last_state |-> CreateParserState(g.parser),
     outputs |-> Append(st.outputs, result)]

\* the state after the sub-parser returned Incomplete
RepeatAfterIncomplete(st, new_state) ==
    [st EXCEPT !.last_state = new_state, !.new_state_in_progress = TRUE]

\* One call of parse.  The value is [out, trace]: the outcome, and the
\* sub-parser invocations of the loop in order, each with the bytes it was
\* given, the repeat state at that moment and what it returned.
RECURSIVE RepeatLoop(_, _, _, _)
RepeatLoop(g, st, remaining, trace) ==
    IF Len(trace) >= MaxLoop THEN [out |-> Diverges, trace |-> trace]
    ELSE
    LET result == Parse(g.parser, st.last_state, remaining)
        tr == Append(trace, [given |-> remaining, at |-> st, res |-> result])
    IN  CASE result.t = "Finished" ->
               LET st2 == RepeatAfterFinished(g, st, result.result) IN
               IF RepeatReachedMax(g, st2.outputs)
               THEN [out |-> Finished(st2.outputs, result.remaining), trace |-> tr]
               ELSE IF result.remaining = <<>>
               THEN LET required_next == RepeatProbe(g, st2, result.remaining) IN
                    [out |-> Incomplete(st2, IF required_next.some
                                             THEN required_next.v ELSE DefaultHint),
                     trace |-> tr]
               ELSE RepeatLoop(g, st2, result.remaining, tr)
          [] result.t = "Incomplete" ->
               [out |-> Incomplete(RepeatAfterIncomplete(st, result.new_state),
                                   result.required_next),
                trace |-> tr]
          [] OTHER ->
               IF RepeatMayEnd(g, st)
               THEN [out |-> Finished(st.outputs, remaining), trace |-> tr]
               ELSE [out |-> Err, trace |-> tr]

RepeatRun(g, st, input) == RepeatLoop(g, st, input, <<>>)

RepeatParse(g, st, input) == RepeatRun(g, st, input).out

----------------------------------------------------------------------------
(* The erasure wrapper: AnyParser and ArcParser (structured_parser/mod.rs) *)

\* the concrete type of a parser's PartialState, as a sequence of type names
RECURSIVE StateType(_)
StateType(g) ==
    CASE g.k = "unit" -> <<"()">>
      [] g.k = "lit" -> <<"LiteralParserOffset">>
      [] g.k = "int" -> <<"IntegerParserState">>
      [] g.k = "oneline" -> <<"OneLineState">>
      [] g.k = "string" -> <<"StringParserState">>
      [] g.k = "repeat" -> <<"RepeatParserState">> \o StateType(g.parser)
      [] g.k = "index" -> <<"IndexParserState">> \o StateType(g.parsers[1])
      [] g.k = "then" ->
            <<"SequenceParserState">> \o StateType(g.parser1) \o StateType(g.parser2)
      [] g.k = "or" ->
            <<"ChoiceParserState">> \o StateType(g.parser1) \o StateType(g.parser2)
      [] g.k = "map" -> StateType(g.parser)
      [] g.k = "boxed" -> <<"Arc<dyn Any>">>
      [] OTHER -> <<"StructureParserState">>

\* Arc::new(state) as Arc<dyn Any>: the value with its concrete type
AnyState(type, s) == [type |-> type, v |-> s]

\* a faulty variant: the state is wrapped a second time, as the boxed
\* parser's own state type rather than the wrapped parser's
AnyCreateStateRewrapped(g) == AnyState(StateType(g), CreateParserState(g.parser))

AnyCreateState(g) == AnyState(StateType(g.parser), CreateParserState(g.parser))

\* state.downcast_ref::<P::PartialState>()
AnyDowncast(g, st) == IF st.type = StateType(g.parser) THEN Some(st.v) ELSE None

\* the error of a failed downcast: "State is not of the correct type"
StateIsNotOfTheCorrectType == [t |-> "Err", e |-> "State is not of the correct type"]

\* a faulty variant: the wrapped parser's progress is dropped, the state
\* given is handed back
AnyParseKeepsState(g, st, input) ==
    LET cast == AnyDowncast(g, st) IN
    IF ~cast.some THEN StateIsNotOfTheCorrectType
    ELSE LET r == Parse(g.parser, cast.v, input) IN
         IF r.t = "Incomplete" THEN Incomplete(st, r.required_next) ELSE r

\* map_state wraps the new state of an Incomplete result and map the output
\* of a Finished one (the Arc keeps the value); an error is passed on
AnyParse(g, st, input) ==
    LET cast == AnyDowncast(g, st) IN
    IF ~cast.some THEN StateIsNotOfTheCorrectType
    ELSE LET r == Parse(g.parser, cast.v, input) IN
         IF r.t = "Incomplete"
         THEN Incomplete(AnyState(StateType(g.parser), r.new_state), r.required_next)
         ELSE r

----------------------------------------------------------------------------
(* The dynamic facade: StructureParser (structured_parser/mod.rs).  A node *)
(* is Literal{literal}, Num{min, max, integer}, Either{first, second} or   *)
(* Then{first, second}; only integer Num nodes are followed.               *)

StructureState(variant, s) == [variant |-> variant, s |-> s]

\* LiteralParser::from(&String)
StructureLiteral(g) == [k |-> "lit", literal |-> g.literal, static |-> FALSE]

\* IntegerParser::new(*min as i128..=*max as i128)
StructureInteger(g) == [k |-> "int", min |-> g.min, max |-> g.max]

StructureCreateState(g) ==
    CASE g.k = "Literal" -> StructureState("Literal", LiteralCreateState)
      [] g.k = "Num" -> StructureState("NumInt", IntegerCreateState)
      [] g.k = "Either" ->
            StructureState("Either",
                ChoiceParserStateNew(CreateParserState(g.first),
                                     CreateParserState(g.second)))
      [] g.k = "Then" ->
            StructureState("Then", FirstParser(CreateParserState(g.first)))

\* a faulty variant: every leaf state is stored under the Literal variant
StructureWrapAsLiteral(variant, r) ==
    CASE r.t = "Finished" -> Finished(Unit, r.remaining)
      [] r.t = "Incomplete" ->
            Incomplete(StructureState("Literal", r.new_state), r.required_next)
      [] OTHER -> Err

\* .map(|result| result.map(|_| ()).map_state(variant))
StructureWrap(variant, r) ==
    CASE r.t = "Finished" -> Finished(Unit, r.remaining)
      [] r.t = "Incomplete" ->
            Incomplete(StructureState(variant, r.new_state), r.required_next)
      [] OTHER -> Err

\* the Either arm: the choice combinator rebuilt over the two sub-nodes and
\* run on a copy of the stored state; copy is that copy
StructureEither(g, copy, input) ==
    LET parser == [k |-> "or", parser1 |-> g.first, parser2 |-> g.second]
        r == ChoiceParse(parser, copy, input)
    IN  CASE r.t = "Incomplete" ->
               Incomplete(StructureState("Either",
                              [state1 |-> copy.state1, state2 |-> copy.state2]),
                          r.required_next)
          [] r.t = "Finished" -> Finished(Unit, r.remaining)
          [] r.t = "Panic" -> r
          [] OTHER -> Err

\* the Then arm: the stored state is rewrapped as FirstParser whichever its
\* phase, and the sequence combinator rebuilt over the two sub-nodes
StructureThen(g, stored, input) ==
    LET rewrapped == FirstParser(stored.s)
        parser == [k |-> "then", parser1 |-> g.first, parser2 |-> g.second]
        r == SequenceParse(parser, rewrapped, input)
    IN  CASE r.t = "Incomplete" ->
               Incomplete(StructureState("Then",
                              IF rewrapped.phase = "FirstParser"
                              THEN FirstParser(rewrapped.s)
                              ELSE SecondParser(rewrapped.s, Unit)),
                          r.required_next)
          [] r.t = "Finished" -> Finished(Unit, r.remaining)
          [] r.t = "Panic" -> r
          [] OTHER -> Err

\* the final arm of the match on (node, state): unreachable!()
Unreachable == [t |-> "Panic"]

StructureParse(g, st, input) ==
    CASE g.k = "Literal" /\ st.variant = "Literal" ->
            StructureWrap("Literal", LiteralParse(StructureLiteral(g), st.s, input))
      [] g.k = "Num" /\ g.integer /\ st.variant = "NumInt" ->
            StructureWrap("NumInt", IntegerParse(StructureInteger(g), st.s, input))
      [] g.k = "Either" /\ st.variant = "Either" -> StructureEither(g, st.s, input)
      [] g.k = "Then" /\ st.variant = "Then" -> StructureThen(g, st.s, input)
      [] OTHER -> Unreachable

----------------------------------------------------------------------------
(* Parser::parse and CreateParserState::create_parser_state, by parser type *)

Parse(g, st, input) ==
    CASE g.k = "unit" -> UnitParse(input)
      [] g.k = "lit" -> LiteralParse(g, st, input)
      [] g.k = "int" -> IntegerParse(g, st, input)
      [] g.k = "oneline" -> OneLineParse(st, input)
      [] g.k = "string" -> StringParse(g, st, input)
      [] g.k = "repeat" -> RepeatParse(g, st, input)
      [] g.k = "index" -> IndexParse(g, st, input)
      [] g.k = "then" -> SequenceParse(g, st, input)
      [] g.k = "or" -> ChoiceParse(g, st, input)
      [] g.k = "map" -> MapOutputParse(g, st, input)
      [] g.k = "boxed" -> AnyParse(g, st, input)
      [] OTHER -> StructureParse(g, st, input)

CreateParserState(g) ==
    CASE g.k = "unit" -> Unit
      [] g.k = "lit" -> LiteralCreateState
      [] g.k = "int" -> IntegerCreateState
      [] g.k = "oneline" -> OneLineCreateState
      [] g.k = "string" -> StringCreateState
      [] g.k = "repeat" -> RepeatCreateState(g)
      [] g.k = "index" -> IndexCreateState(g)
      [] g.k = "then" -> FirstParser(CreateParserState(g.parser1))
      [] g.k = "or" ->
            ChoiceParserStateNew(CreateParserState(g.parser1),
                                 CreateParserState(g.parser2))
      [] g.k = "map" -> CreateParserState(g.parser)
      [] g.k = "boxed" -> AnyCreateState(g)
      [] OTHER -> StructureCreateState(g)

----------------------------------------------------------------------------
(* A chain of parse calls: the caller creates the initial state, passes    *)
(* each new chunk with the state of the previous Incomplete result, and    *)
(* stops at the first Finished or failure.                                 *)

\* the outcome of the last call of such a chain over the inputs ins (not
\* empty), from state st
RECURSIVE RunFrom(_, _, _)
RunFrom(g, st, ins) ==
    LET r == Parse(g, st, Head(ins)) IN
    IF Len(ins) = 1 \/ r.t # "Incomplete" THEN r
    ELSE RunFrom(g, r.new_state, Tail(ins))

Run(g, ins) == RunFrom(g, CreateParserState(g), ins)

\* no run_step has been made
NoStep == [done |-> FALSE]

\* no Consumer has been constructed
NoConsumer == [made |-> FALSE]

Begin(g) ==
    /\ grammar = g
    /\ state = CreateParserState(g)
    /\ before = CreateParserState(g)
    /\ status = "running"
    /\ last = [t |-> "None"]
    /\ chunks = <<>>
    /\ tried = <<>>
    /\ step = NoStep
    /\ consumer = NoConsumer

StatusOf(r) ==
    CASE r.t = "Finished" -> "finished"
      [] r.t = "Incomplete" -> "running"
      [] r.t = "Err" -> "failed"
      [] r.t = "Diverges" -> "diverged"
      [] OTHER -> "panicked"

\* the inputs of a next call: the byte strings over alphabet A of at most n
\* bytes that keep the chain within MaxInput
Inputs(A, n) == {input \in SeqsUpTo(A, n) : Len(fed) + Len(input) <= MaxInput}

\* one call parser.parse(&state, input)
Feed(input) ==
    /\ status = "running"
    /\ calls < MaxCalls
    /\ LET r == Parse(grammar, state, input) IN
       /\ last' = r
       /\ status' = StatusOf(r)
       /\ state' = IF r.t = "Incomplete" THEN r.new_state ELSE state
    /\ before' = state
    /\ chunks' = Append(chunks, input)
    /\ tried' = <<>>
    /\ UNCHANGED <<grammar, step, consumer>>

\* a faulty variant: the call writes its progress into the caller's state
StateAfterParseOverwritten(st, r) ==
    IF r.t = "Incomplete" THEN r.new_state ELSE st

\* the caller's state after parse(&state, input) has returned: parse has the
\* state by shared reference and works on a clone of it
StateAfterParse(st, r) == st

\* one candidate input tried from the current state, the chain not advancing
Try(input) ==
    /\ status = "running"
    /\ Len(tried) < MaxTries
    /\ LET r == Parse(grammar, state, input) IN
       /\ tried' = Append(tried, [input |-> input, given |-> state, res |-> r])
       /\ state' = StateAfterParse(state, r)
    /\ UNCHANGED <<grammar, before, status, last, chunks, step, consumer>>

\* one of the candidates tried is taken: the chain advances by it
Take == \E k \in 1..Len(tried) : Feed(tried[k].input)

----------------------------------------------------------------------------
(* OneLine alone *)

\* 'a', '7', ' ', '.', '\n', '!'
OneLineBytes == {97, 55, SPACE, DOT, NL, 33}

InitOneLine == Begin([k |-> "oneline"])

NextOneLine == \E input \in Inputs(OneLineBytes, MaxChunkLen) : Feed(input)

SpecOneLine == InitOneLine /\ [][NextOneLine]_vars

\* position of the first byte b of s, 0 when there is none
FirstIndex(s, b) ==
    IF \E i \in 1..Len(s) : s[i] = b
    THEN CHOOSE i \in 1..Len(s) : s[i] = b /\ \A j \in 1..(i - 1) : s[j] # b
    ELSE 0

\* the bytes a line may hold: ASCII alphanumerics, ' ' and '.'
OneLineAllowed(c) == IsAsciiAlphanumeric(c) \/ c \in {SPACE, DOT}

\* C1: fed the bytes of a line L of alphanumerics, spaces and '.', OneLine is
\* Incomplete as long as no '\n' came; once L with a non-whitespace byte is
\* followed by '\n' (and by any bytes R) it has Finished with result L and the
\* bytes after the '\n' remaining.
C1_OneLineAcceptsLine ==
    (grammar.k = "oneline" /\ calls > 0) =>
        LET p == FirstIndex(fed, NL)
            line == IF p = 0 THEN fed ELSE Head0(fed, p - 1)
        IN  (\A i \in 1..Len(line) : OneLineAllowed(line[i])) =>
                IF p = 0 THEN status = "running"
                ELSE (\E i \in 1..Len(line) : ~IsWhitespace(line[i])) =>
                        /\ status = "finished"
                        /\ last.result = line
                        /\ last.remaining = Tail0(fed, p)

----------------------------------------------------------------------------
(* ToolManager (kalosm-language tool/mod.rs): the grammar of one action    *)

\* "Thought: ", "Action: ", "Final Answer: "
ThoughtPrefix == <<84, 104, 111, 117, 103, 104, 116, 58, 32>>
ActionPrefix == <<65, 99, 116, 105, 111, 110, 58, 32>>
AnswerPrefix == <<70, 105, 110, 97, 108, 32, 65, 110, 115, 119, 101, 114, 58, 32>>

\* WebSearchTool (tool/search.rs): "Web Search", "Search query: ", OneLine
WebSearchTool ==
    [name |-> <<87, 101, 98, 32, 83, 101, 97, 114, 99, 104>>,
     input_prompt |-> <<83, 101, 97, 114, 99, 104, 32, 113, 117, 101, 114, 121, 58, 32>>,
     constraints |-> [k |-> "oneline"]]

\* a tool whose input is one digit: "Calc", "Expr: ", IntegerParser(0..=9)
DigitTool ==
    [name |-> <<67, 97, 108, 99>>,
     input_prompt |-> <<69, 120, 112, 114, 58, 32>>,
     constraints |-> [k |-> "int", min |-> 0, max |-> 9]]

\* LiteralParser::from(&'static str) and LiteralParser::from(String)
StaticLiteral(s) == [k |-> "lit", literal |-> s, static |-> TRUE]
OwnedLiteral(s) == [k |-> "lit", literal |-> s, static |-> FALSE]

ThenParser(a, b) == [k |-> "then", parser1 |-> a, parser2 |-> b]
OrParser(a, b) == [k |-> "or", parser1 |-> a, parser2 |-> b]
MapOutput(p, map) == [k |-> "map", parser |-> p, map |-> map]
Boxed(p) == [k |-> "boxed", parser |-> p]

\* DynToolWrapper::constraints
DynToolConstraints(tool) == Boxed(MapOutput(tool.constraints, "box"))

\* the parser pushed for one tool in tool_choices
ToolInputParser(tool) ==
    MapOutput(ThenParser(OwnedLiteral(tool.name \o <<NL>> \o tool.input_prompt),
                         DynToolConstraints(tool)),
              "second")

\* a faulty variant: the alternatives are pushed in the reverse of the
\* registration order
ToolChoicesReversed(tools) ==
    IF tools = <<>> THEN None
    ELSE Some(Boxed([k |-> "index",
                     parsers |-> [i \in 1..Len(tools) |->
                                     ToolInputParser(tools[Len(tools) + 1 - i])]]))

\* ToolManager::tool_choices
ToolChoices(tools) ==
    IF tools = <<>> THEN None
    ELSE Some(Boxed([k |-> "index",
                     parsers |-> [i \in 1..Len(tools) |-> ToolInputParser(tools[i])]]))

\* ToolManager::any_action_constraint; tool_choices().unwrap() needs a tool
AnyActionConstraint(tools) ==
    LET thought_constraints ==
            MapOutput(ThenParser(StaticLiteral(ThoughtPrefix), [k |-> "oneline"]),
                      "second")
        action_constraints ==
            MapOutput(ThenParser(StaticLiteral(ActionPrefix), ToolChoices(tools).v),
                      "second")
        answer_constraints ==
            MapOutput(ThenParser(StaticLiteral(AnswerPrefix), [k |-> "oneline"]),
                      "second")
    IN  Boxed(MapOutput(OrParser(OrParser(thought_constraints, action_constraints),
                                 answer_constraints),
                        "action"))

\* the tool lists followed
ToolLists ==
    {<<WebSearchTool>>, <<DigitTool>>, <<WebSearchTool, DigitTool>>,
     <<DigitTool, WebSearchTool>>}

ToolHeader(tool) == tool.name \o <<NL>> \o tool.input_prompt

\* the pieces of text the generator offers as one chunk
ToolTokens ==
    {<<>>, ThoughtPrefix, ActionPrefix, AnswerPrefix,
     Head0(ThoughtPrefix, 4), Tail0(ThoughtPrefix, 4),
     ToolHeader(WebSearchTool), ToolHeader(DigitTool),
     <<97>>, <<97, NL>>, <<SPACE>>, <<NL>>, <<55>>, <<55, NL>>, <<55, SPACE>>}

InitTool == \E tools \in ToolLists : Begin(AnyActionConstraint(tools))

NextTool == \E input \in ToolTokens : Feed(input)

SpecTool == InitTool /\ [][NextTool]_vars

\* whether s starts with prefix p
StartsWith(s, p) == Len(p) <= Len(s) /\ Head0(s, Len(p)) = p

\* whether line is a non-blank line of alphanumerics, ' ' and '.'
ValidLine(line) ==
    /\ \A i \in 1..Len(line) : OneLineAllowed(line[i])
    /\ \E i \in 1..Len(line) : ~IsWhitespace(line[i])

\* the registered tools of the grammar under test
ToolsOf(g) == g.parser.parser.parser1.parser2.parser.parser2.parser.parsers

\* the tool's own constraint of alternative i of the index parser
ConstraintOf(g, i) == ToolsOf(g)[i].parser.parser2.parser.parser

\* the header literal of alternative i
HeaderOf(g, i) == ToolsOf(g)[i].parser.parser1.literal

\* C2 (Thought and Answer): "Thought: " L "\n" finishes as Thought(L) and
\* "Final Answer: " L "\n" as Answer(L), for a non-blank line L.
C2_LineActions ==
    (grammar.k = "boxed" /\ Len(fed) > 0 /\ fed[Len(fed)] = NL) =>
        /\ \A L \in SeqsUpTo({97, 55, SPACE}, MaxChunkLen) :
              (ValidLine(L) /\ fed = ThoughtPrefix \o L \o <<NL>>) =>
                  (status = "finished" /\ last.result = Thought(L))
        /\ \A L \in SeqsUpTo({97, 55, SPACE}, MaxChunkLen) :
              (ValidLine(L) /\ fed = AnswerPrefix \o L \o <<NL>>) =>
                  (status = "finished" /\ last.result = Answer(L))

\* C2 (Action): "Action: " name_i "\n" prompt_i followed by an input that
\* tool i's own constraint finishes on finishes as Tool with index i.
C2_ToolAction ==
    (grammar.k = "boxed") =>
        \A i \in 1..Len(ToolsOf(grammar)) :
            LET head == ActionPrefix \o HeaderOf(grammar, i) IN
            (/\ StartsWith(fed, head)
             /\ Parse(ConstraintOf(grammar, i),
                      CreateParserState(ConstraintOf(grammar, i)),
                      Tail0(fed, Len(head))).t = "Finished") =>
                (status = "finished" /\ last.result.action = "Tool"
                                     /\ last.result.index = i - 1)

\* C2: each of the three action kinds is reachable by its text.
C2_EveryActionReachable == C2_LineActions /\ C2_ToolAction

\* a tool call has been parsed
C2_ToolWitness ==
    grammar.k = "boxed" /\ status = "finished" /\ last.result.action = "Tool"

----------------------------------------------------------------------------
(* IndexParser over literal alternatives *)

\* 'a', 'b', 'c'
IndexBytes == {97, 98, 99}

\* the literals of the alternatives: "ab", "ac", "b", "a"
IndexLiterals == {<<97, 98>>, <<97, 99>>, <<98>>, <<97>>}

IndexAlternatives ==
    {[k |-> "lit", literal |-> l, static |-> b] : l \in IndexLiterals, b \in BOOLEAN}

\* the lists of one and of two alternatives, and some of three
IndexGrammars ==
    {[k |-> "index", parsers |-> <<p>>] : p \in IndexAlternatives}
    \cup {[k |-> "index", parsers |-> <<p, q>>] : p, q \in IndexAlternatives}
    \cup {[k |-> "index", parsers |-> <<p, q, StaticLiteral(<<97, 98, 99>>)>>] :
            p, q \in {x \in IndexAlternatives : x.literal # <<98>>}}

\* IndexParser::new(vec![]), in a build with overflow checks and in one
\* without
EmptyIndexGrammars ==
    {[k |-> "index", parsers |-> <<>>, overflow_checks |-> b] : b \in BOOLEAN}

InitIndex == \E g \in IndexGrammars \cup EmptyIndexGrammars : Begin(g)

NextIndex == \E input \in Inputs(IndexBytes, MaxChunkLen) : Feed(input)

SpecIndex == InitIndex /\ [][NextIndex]_vars

\* the longest common prefix of a non-empty set of byte strings
LongestCommonPrefix(H) ==
    LET h == CHOOSE x \in H : TRUE
        n == CHOOSE k \in 0..Len(h) :
                /\ \A x \in H : Len(x) >= k /\ Head0(x, k) = Head0(h, k)
                /\ \A j \in (k + 1)..Len(h) :
                      \E x \in H : Len(x) < j \/ Head0(x, j) # Head0(h, j)
    IN  Head0(h, n)

\* the hints of the alternatives that returned Incomplete in the latest call
IncompleteHints ==
    {Parse(grammar.parsers[i], before.states[i].v, chunk).required_next.s :
        i \in {j \in 1..Len(grammar.parsers) :
                 /\ before.states[j].ok
                 /\ Parse(grammar.parsers[j], before.states[j].v, chunk).t
                        = "Incomplete"}}

\* C3: the required_next of an Incomplete IndexParser result is the longest
\* common prefix of the hints of the alternatives that returned Incomplete
\* in that call, whether these are borrowed or owned.
C3_HintIsCommonPrefix ==
    (grammar.k = "index" /\ calls > 0 /\ last.t = "Incomplete") =>
        /\ IncompleteHints # {}
        /\ last.required_next.s = LongestCommonPrefix(IncompleteHints)

\* the same, for alternatives whose hints are all owned
C3_OwnedHintIsCommonPrefix ==
    (/\ grammar.k = "index" /\ calls > 0 /\ last.t = "Incomplete"
     /\ \A i \in 1..Len(grammar.parsers) : ~grammar.parsers[i].static) =>
        /\ IncompleteHints # {}
        /\ last.required_next.s = LongestCommonPrefix(IncompleteHints)

\* what alternative i does in the latest call, taken alone from its slot
AlternativeResult(i) ==
    IF before.states[i].ok
    THEN Parse(grammar.parsers[i], before.states[i].v, chunk)
    ELSE Err

\* the alternatives that finish in the latest call
Finishers ==
    {i \in 1..Len(grammar.parsers) : AlternativeResult(i).t = "Finished"}

\* C16: a call finishes exactly when some alternative that has not failed
\* finishes on the chunk from its stored state, and then with the index, the
\* output and the remaining bytes of the first such alternative, whatever
\* the alternatives before it (still Incomplete) and after it would give.
C16_FirstSuccessWins ==
    (grammar.k = "index" /\ calls > 0) =>
        /\ status = "finished" => Finishers # {}
        /\ Finishers # {} =>
              LET i == CHOOSE x \in Finishers : \A y \in Finishers : x <= y IN
              last = Finished(<<i - 1, AlternativeResult(i).result>>,
                              AlternativeResult(i).remaining)

\* the second alternative wins while the first is still Incomplete
C16_Witness ==
    /\ grammar.k = "index" /\ calls > 0 /\ status = "finished"
    /\ Len(grammar.parsers) >= 2
    /\ last.result[1] = 1
    /\ AlternativeResult(1).t = "Incomplete"

\* several alternatives finish on the same call
C16_SeveralFinish ==
    /\ grammar.k = "index" /\ calls > 0 /\ status = "finished"
    /\ Cardinality(Finishers) >= 2

\* C17: a call fails exactly when every alternative has failed, in this call
\* or before, which leaves none finished; when none finished and at least
\* one is Incomplete the call is Incomplete, and in its state the failed
\* alternatives are failed and the others hold their new state.
C17_FailsIffAllFailed ==
    (grammar.k = "index" /\ Len(grammar.parsers) >= 1 /\ calls > 0) =>
        /\ last.t = "Err" <=>
              \A i \in 1..Len(grammar.parsers) : AlternativeResult(i).t = "Err"
        /\ (/\ Finishers = {}
            /\ \E i \in 1..Len(grammar.parsers) :
                  AlternativeResult(i).t = "Incomplete") =>
              /\ last.t = "Incomplete"
              /\ \A i \in 1..Len(grammar.parsers) :
                    last.new_state.states[i] =
                        IF AlternativeResult(i).t = "Err" THEN Failed
                        ELSE Ok(AlternativeResult(i).new_state)

\* the alternatives fail in different calls, the last of them ending the parse
C17_Witness ==
    /\ grammar.k = "index" /\ calls >= 2 /\ status = "failed"
    /\ \E i, j \in 1..Len(grammar.parsers) :
          ~before.states[i].ok /\ before.states[j].ok

\* a failed alternative kept failed while the parse goes on
C17_StaysAlive ==
    /\ grammar.k = "index" /\ calls > 0 /\ status = "running"
    /\ \E i, j \in 1..Len(grammar.parsers) :
          /\ before.states[i].ok /\ ~state.states[i].ok
          /\ state.states[j].ok

\* alternative i, fed alone the chunks of the chain, failed before the latest
\* call
FailedEarlier(i) ==
    \E j \in 1..(calls - 1) : Run(grammar.parsers[i], SubSeq(chunks, 1, j)).t = "Err"

\* C18: once alternative i has failed, every later call of the chain leaves
\* its slot failed, never finishes with index i, and returns what it would
\* return with any other parser in place i (here one that finishes at once):
\* parser i is not invoked and adds nothing to required_next.
C18_NoResurrection ==
    (grammar.k = "index" /\ calls > 1) =>
        \A i \in 1..Len(grammar.parsers) :
            FailedEarlier(i) =>
                /\ ~before.states[i].ok
                /\ status = "running" => ~state.states[i].ok
                /\ status = "finished" => last.result[1] # i - 1
                /\ last = Parse([grammar EXCEPT !.parsers[i] = [k |-> "unit"]],
                                before, chunk)

\* a failed alternative that would finish on the latest chunk if it were
\* started afresh, in a chain that is still alive
C18_Witness ==
    /\ grammar.k = "index" /\ calls > 1 /\ status \in {"running", "finished"}
    /\ \E i \in 1..Len(grammar.parsers) :
          /\ FailedEarlier(i)
          /\ Parse(grammar.parsers[i], CreateParserState(grammar.parsers[i]),
                   chunk).t = "Finished"

----------------------------------------------------------------------------
(* The dynamic facade over small grammars *)

\* 'a', 'b', 'c', '1', '2'
StructureBytes == {97, 98, 99, 49, 50}

LiteralNode(s) == [k |-> "Literal", literal |-> s]
IntegerNode(lo, hi) == [k |-> "Num", min |-> lo, max |-> hi, integer |-> TRUE]
EitherNode(a, b) == [k |-> "Either", first |-> a, second |-> b]
ThenNode(a, b) == [k |-> "Then", first |-> a, second |-> b]

StructureLeaves ==
    {LiteralNode(<<97, 98>>), LiteralNode(<<97, 99>>), LiteralNode(<<98>>),
     IntegerNode(1, 25)}

StructureGrammars ==
    StructureLeaves
    \cup {EitherNode(a, b) : a, b \in StructureLeaves}
    \cup {ThenNode(a, b) : a, b \in StructureLeaves}
    \cup {EitherNode(ThenNode(LiteralNode(<<97>>), LiteralNode(<<98>>)),
                     LiteralNode(<<97, 99>>)),
          ThenNode(EitherNode(LiteralNode(<<97, 98>>), LiteralNode(<<99>>)),
                   LiteralNode(<<97>>))}

InitStructure == \E g \in StructureGrammars : Begin(g)

NextStructure == \E input \in Inputs(StructureBytes, MaxChunkLen) : Feed(input)

SpecStructure == InitStructure /\ [][NextStructure]_vars

\* the static combinators over the two sub-grammars of a node
StaticChoice(g) == OrParser(g.first, g.second)
StaticSequence(g) == ThenParser(g.first, g.second)

\* whether the facade's outcome r is the combinator's outcome ref: the same
\* kind, the same remaining bytes, the same hint and the same stored progress
SameOutcome(r, ref) ==
    /\ r.t = ref.t
    /\ r.t = "Finished" => r.remaining = ref.remaining
    /\ r.t = "Incomplete" =>
          /\ r.required_next.s = ref.required_next.s
          /\ r.new_state.s = ref.new_state

\* C4: an Either node fed chunk by chunk along its own states gives what the
\* choice combinator over the same sub-grammars gives along its own, and its
\* Incomplete state holds each side's progress and the sides that failed.
C4_EitherResumes ==
    (grammar.k = "Either" /\ calls > 0) =>
        SameOutcome(last, Run(StaticChoice(grammar), chunks))

\* C5: a Then node fed chunk by chunk along its own states gives what the
\* sequence combinator gives along its own (once first is complete the
\* state is in the second-parser phase with second's progress), and finishes
\* exactly when the whole input fed in one call finishes.
C5_ThenResumes ==
    (grammar.k = "Then" /\ calls > 0) =>
        /\ SameOutcome(last, Run(StaticSequence(grammar), chunks))
        /\ (status = "finished") <=> (Run(grammar, <<fed>>).t = "Finished")

----------------------------------------------------------------------------
(* RepeatParser over the unit, literal, integer and string parsers *)

\* the sub-parsers: (), "a", "ab", IntegerParser(1..=3), StringParser(0..=1)
RepeatSubParsers ==
    {[k |-> "unit"], StaticLiteral(<<97>>), StaticLiteral(<<97, 98>>),
     [k |-> "int", min |-> 1, max |-> 3],
     [k |-> "string", min |-> 0, max |-> 1, filter |-> "all"]}

\* the count ranges min..=max
RepeatRanges == {<<0, 0>>, <<0, 2>>, <<1, 3>>, <<2, 3>>}

\* usize::MAX, the end of the default range 0..=usize::MAX.  The value is
\* the largest the checker's integers hold next to one more; the program's
\* is 2^64 - 1, and both are far above every count a call reaches here.
UsizeMax == 2147483646

\* RepeatParser::default() and RepeatParser::new(p, 0..=usize::MAX), over the
\* unit parser, a zero-length literal and a one-byte literal
RepeatDefaults ==
    {[k |-> "repeat", parser |-> p, min |-> 0, max |-> UsizeMax] :
        p \in {[k |-> "unit"], StaticLiteral(<<>>), StaticLiteral(<<97>>)}}

RepeatGrammars ==
    {[k |-> "repeat", parser |-> p, min |-> r[1], max |-> r[2]] :
        p \in RepeatSubParsers, r \in RepeatRanges}
    \cup RepeatDefaults

\* the bytes offered to a repetition of sub-parser p
RepeatBytes(p) ==
    CASE p.k = "int" -> {49, 50, 51}
      [] p.k = "string" -> {QUOTE, 97}
      [] OTHER -> {97, 98}

InitRepeat == \E g \in RepeatGrammars : Begin(g)

NextRepeat ==
    \E input \in Inputs(RepeatBytes(grammar.parser), MaxRepeatInput) : Feed(input)

SpecRepeat == InitRepeat /\ [][NextRepeat]_vars

\* the sub-parser invocations of the latest call
LastTrace == RepeatRun(grammar, before, chunk).trace

\* the outputs held when invocation j of the latest call began: those of the
\* state the call was given and those of the invocations before j, which all
\* finished
CollectedBefore(j) ==
    before.outputs \o [i \in 1..(j - 1) |-> LastTrace[i].res.result]

\* the bytes at which invocation j began
BytesAt(j) == IF j = 1 THEN chunk ELSE LastTrace[j - 1].res.remaining

\* whether a repetition cycle was in progress when invocation j began
InProgressAt(j) == j = 1 /\ before.new_state_in_progress

\* C6: the Finished of the sub-parser that brings the number of outputs to
\* max ends the call: it is the last invocation, and the call returns Finished
\* with these max outputs and the bytes that follow that repetition.
C6_FinishesAtMax ==
    (grammar.k = "repeat" /\ calls > 0) =>
        /\ \A j \in 1..Len(LastTrace) :
              (/\ LastTrace[j].res.t = "Finished"
               /\ Len(CollectedBefore(j)) + 1 = grammar.max) =>
                  /\ j = Len(LastTrace)
                  /\ last = Finished(Append(CollectedBefore(j), LastTrace[j].res.result),
                                     LastTrace[j].res.remaining)
                  /\ Len(last.result) = grammar.max
        /\ (grammar = [k |-> "repeat", parser |-> StaticLiteral(<<97>>),
                       min |-> 1, max |-> 3]
            /\ chunks = <<(<<97, 97, 97>>)>>) =>
                last = Finished(<<Unit, Unit, Unit>>, <<>>)
        /\ (grammar = [k |-> "repeat", parser |-> [k |-> "int", min |-> 1, max |-> 3],
                       min |-> 1, max |-> 3]
            /\ chunks = <<(<<49, 50, 51>>)>>) =>
                last = Finished(<<1, 2, 3>>, <<>>)

\* the third repetition of a 1..=3 range finished a call that began with
\* outputs already collected, and left bytes over
C6_Witness ==
    /\ grammar.k = "repeat" /\ grammar.max = 3 /\ calls = 2
    /\ status = "finished" /\ Len(last.result) = 3
    /\ last.remaining # <<>>
    /\ LastTrace[Len(LastTrace)].res.t = "Finished"

\* C7: for every range min..=max, max = 0 included, no Incomplete state holds
\* more than max outputs and no Finished result is longer than max.
C7_CountNeverAboveMax ==
    (grammar.k = "repeat") =>
        /\ status = "running" => Len(state.outputs) <= grammar.max
        /\ status = "finished" => Len(last.result) <= grammar.max

\* C8: when the sub-parser fails, the call returns Finished with the outputs
\* collected before the failed attempt and the bytes at which it began if no
\* cycle was in progress and the count lies in [min,max], and the failure
\* otherwise.
C8_FailureEndsOrFails ==
    (grammar.k = "repeat" /\ calls > 0) =>
        LET j == Len(LastTrace) IN
        (LastTrace[j].res.t = "Err") =>
            IF /\ ~InProgressAt(j)
               /\ grammar.min <= Len(CollectedBefore(j))
               /\ Len(CollectedBefore(j)) <= grammar.max
            THEN last = Finished(CollectedBefore(j), BytesAt(j))
            ELSE last = Err

\* a failure after one finished repetition ended the call with that output
\* and the failing bytes left over
C8_Witness ==
    /\ grammar.k = "repeat" /\ calls > 0
    /\ LastTrace[Len(LastTrace)].res.t = "Err"
    /\ Len(LastTrace) = 2
    /\ status = "finished" /\ Len(last.result) = 1 /\ last.remaining # <<>>

\* a failure in the middle of a cycle, or below min, failed the call
C8_FailWitness ==
    /\ grammar.k = "repeat" /\ calls = 2
    /\ before.new_state_in_progress
    /\ Len(before.outputs) >= grammar.min
    /\ status = "failed"

\* C9: when a Finished of the sub-parser uses up the input with the count
\* still below max, the call returns Incomplete with no cycle in progress, the
\* fresh sub-state, all outputs so far, and the hint of the fresh sub-parser
\* probed on empty input (the empty string unless that probe is Incomplete).
C9_IncompleteAtBoundary ==
    (grammar.k = "repeat" /\ calls > 0) =>
        LET j == Len(LastTrace)
            probe == Parse(grammar.parser, CreateParserState(grammar.parser), <<>>)
        IN  /\ (/\ LastTrace[j].res.t = "Finished"
                /\ LastTrace[j].res.remaining = <<>>
                /\ Len(CollectedBefore(j)) + 1 < grammar.max) =>
                   /\ last.t = "Incomplete"
                   /\ last.new_state =
                         [new_state_in_progress |-> FALSE,
                          last_state |-> CreateParserState(grammar.parser),
                          outputs |-> Append(CollectedBefore(j),
                                             LastTrace[j].res.result)]
                   /\ last.required_next.s =
                         IF probe.t = "Incomplete" THEN probe.required_next.s
                         ELSE <<>>
            /\ (grammar = [k |-> "repeat",
                           parser |-> [k |-> "int", min |-> 1, max |-> 3],
                           min |-> 1, max |-> 3]
                /\ chunks = <<(<<49, 50>>)>>) =>
                   last = Incomplete([new_state_in_progress |-> FALSE,
                                      last_state |-> IntegerCreateState,
                                      outputs |-> <<1, 2>>],
                                     DefaultHint)

\* two repetitions of a literal used up the input below max: the hint is the
\* literal
C9_Witness ==
    /\ grammar.k = "repeat" /\ grammar.parser.k = "lit" /\ calls > 0
    /\ status = "running" /\ ~state.new_state_in_progress
    /\ Len(state.outputs) = 2 /\ grammar.max = 3
    /\ last.required_next.s = grammar.parser.literal

-----------------------------------------------------------------------------
(* StringParser fed chunk by chunk *)

\* a quote, a backslash, a letter and a byte above 127
StringBytes == {QUOTE, BACKSLASH, 97, 233}

StringFilters == {"all", "alnum", "noquote"}

StringRanges == {<<0, 1>>, <<1, 2>>}

\* StringParser::new(min..=max), with_allowed_characters for the other filters
StringGrammars ==
    {[k |-> "string", min |-> r[1], max |-> r[2], filter |-> f] :
        r \in StringRanges, f \in StringFilters}

InitString == \E g \in StringGrammars : Begin(g)

NextString == \E input \in Inputs(StringBytes, MaxChunkLen) : Feed(input)

SpecString == InitString /\ [][NextString]_vars

\* C10: with the accept-all filter, an input parsed as two chunks, the second
\* from the state the first returned, ends in the outcome of parsing the whole
\* input in one call from the default state: the same Finished string and
\* remaining bytes, the same failure, or the same Incomplete state.
C10_TwoChunksAsOne ==
    (grammar.k = "string" /\ grammar.filter = "all" /\ calls = 2) =>
        last = Parse(grammar, CreateParserState(grammar), chunks[1] \o chunks[2])

\* a split directly after a backslash, the escaped quote arriving in the
\* second chunk and ending up in the string
C10_Witness ==
    /\ grammar.k = "string" /\ grammar.filter = "all" /\ calls = 2
    /\ before.next_char_escaped
    /\ chunks[2] # <<>> /\ chunks[2][1] = QUOTE
    /\ status = "finished"
    /\ last.result = <<QUOTE>>

\* the bytes taken into the string so far: the bytes fed after the opening
\* quote, up to the closing quote when the parse has finished
StringInterior ==
    IF status = "finished"
    THEN SubSeq(fed, 2, Len(fed) - Len(last.remaining) - 1)
    ELSE SubSeq(fed, 2, Len(fed))

\* C11: for every filter and every chunking, each character of a string
\* returned as Finished passes the filter, escaped characters included, and
\* no byte that fails the filter is taken in without the parse failing.
C11_AcceptedPassFilter ==
    (grammar.k = "string" /\ status \in {"running", "finished"}) =>
        /\ status = "finished" =>
              \A i \in 1..Len(last.result) : CharacterFilter(grammar, last.result[i])
        /\ \A i \in 1..Len(StringInterior) :
              CharacterFilter(grammar, StringInterior[i])

\* what reading s from byte i on as the inside of a string literal gives:
\* the unescaped text, and either the bytes after the first unescaped quote
\* or whether an escape is pending at the end
RECURSIVE Unescape(_, _, _, _)
Unescape(s, i, esc, acc) ==
    IF i > Len(s) THEN [closed |-> FALSE, string |-> acc, esc |-> esc]
    ELSE IF esc THEN Unescape(s, i + 1, FALSE, Append(acc, s[i]))
    ELSE IF s[i] = QUOTE
         THEN [closed |-> TRUE, string |-> acc, rest |-> SubSeq(s, i + 1, Len(s))]
    ELSE IF s[i] = BACKSLASH THEN Unescape(s, i + 1, TRUE, acc)
    ELSE Unescape(s, i + 1, FALSE, Append(acc, s[i]))

\* the bytes fed so far, read as a string literal
FedLiteral == Unescape(fed, 2, FALSE, <<>>)

\* C12: every Finished string has a length (String::len) in [min, max], and
\* a closing quote reached with the length outside the range is a failure,
\* for every input and chunking from the default state.
C12_FinishedLengthInRange ==
    (grammar.k = "string" /\ calls > 0) =>
        /\ status = "finished" =>
              /\ grammar.min <= Utf8Len(last.result)
              /\ Utf8Len(last.result) <= grammar.max
        /\ (/\ fed # <<>> /\ fed[1] = QUOTE /\ FedLiteral.closed
            /\ ~(/\ grammar.min <= Utf8Len(FedLiteral.string)
                 /\ Utf8Len(FedLiteral.string) <= grammar.max)) =>
              status = "failed"

\* a closing quote reached below the minimum, and one above the maximum
C12_Witness ==
    /\ grammar.k = "string" /\ calls = 2 /\ status = "failed"
    /\ fed # <<>> /\ fed[1] = QUOTE /\ FedLiteral.closed
    /\ Utf8Len(FedLiteral.string) > grammar.max
    /\ chunk = <<QUOTE>>

\* C13: over the full byte range, no Incomplete state reached from the
\* default state holds a string longer (String::len) than max, and with the
\* length at max every byte other than a closing quote fails.
C13_NeverLongerThanMax ==
    (grammar.k = "string") =>
        /\ status = "running" => Utf8Len(state.string) <= grammar.max
        /\ (/\ calls > 0 /\ before.progress = "InString"
            /\ Utf8Len(before.string) = grammar.max
            /\ chunk # <<>> /\ chunk[1] # QUOTE) => last = Err

C15_BeforeQuote ==
    (grammar.k = "string" /\ calls > 0) =>
        /\ (/\ before.progress = "BeforeQuote"
            /\ chunk # <<>> /\ chunk[1] # QUOTE) => last = Err
        /\ (before.progress = "BeforeQuote" /\ chunk = <<QUOTE>>) =>
              last = Incomplete([progress |-> "InString",
                                 string |-> before.string,
                                 next_char_escaped |-> before.next_char_escaped],
                                Borrowed(<<>>))
        /\ chunk = <<>> => last = Incomplete(before, Borrowed(<<>>))

\* an empty first chunk leaves the default state; the next first byte is not
\* a quote
C15_Witness ==
    /\ grammar.k = "string" /\ calls = 2
    /\ chunks[1] = <<>> /\ state = StringCreateState
    /\ chunks[2] # <<>> /\ chunks[2][1] # QUOTE
    /\ status = "failed"

-----------------------------------------------------------------------------
(* Candidates tried from one state, as a sampler does with its tokens *)

BranchGrammars ==
    {[k |-> "unit"],
     [k |-> "oneline"],
     [k |-> "string", min |-> 0, max |-> 1, filter |-> "all"],
     [k |-> "string", min |-> 1, max |-> 2, filter |-> "noquote"],
     [k |-> "index", parsers |-> <<StaticLiteral(<<97, 98>>), OwnedLiteral(<<97>>)>>],
     [k |-> "index", parsers |-> <<StaticLiteral(<<98>>), OwnedLiteral(<<97, 98>>),
                                   StaticLiteral(<<97, 98, 99>>)>>],
     [k |-> "repeat", parser |-> StaticLiteral(<<97>>), min |-> 1, max |-> 3],
     [k |-> "repeat", parser |-> [k |-> "int", min |-> 1, max |-> 3],
      min |-> 1, max |-> 3],
     [k |-> "repeat", parser |-> [k |-> "string", min |-> 0, max |-> 1,
                                  filter |-> "all"], min |-> 0, max |-> 2],
     EitherNode(LiteralNode(<<97, 98>>), LiteralNode(<<97, 99>>)),
     ThenNode(LiteralNode(<<98>>), IntegerNode(1, 25))}

\* the candidate inputs offered to a grammar
BranchTokens(g) ==
    LET letters == {<<>>, <<97>>, <<98>>, <<97, 98, 99>>}
        digits == {<<>>, <<49>>, <<49, 50>>, <<53>>}
        quoted == {<<>>, <<QUOTE>>, <<BACKSLASH>>, <<97, QUOTE, 97>>}
    IN  CASE g.k = "oneline" -> {<<>>, <<97>>, <<SPACE>>, <<97, NL>>}
          [] g.k = "string" -> quoted
          [] g.k = "repeat" ->
                (CASE g.parser.k = "int" -> digits
                   [] g.parser.k = "string" -> quoted
                   [] OTHER -> letters)
          [] g.k = "Then" -> {<<>>, <<98>>, <<98, 49, 97>>, <<49, 97>>}
          [] OTHER -> letters

InitBranch == \E g \in BranchGrammars : Begin(g)

NextBranch ==
    \/ \E input \in BranchTokens(grammar) : Try(input)
    \/ Take

SpecBranch == InitBranch /\ [][NextBranch]_vars

IsSuffix(r, s) ==
    Len(r) <= Len(s) /\ r = SubSeq(s, Len(s) - Len(r) + 1, Len(s))

\* C20: the remaining bytes of a Finished result are an end of the input of
\* the call that returned it, for the call that advanced the chain and for
\* each candidate tried; the unit parser finishes with its whole input.
C20_RemainingIsSuffix ==
    /\ (calls > 0 /\ last.t = "Finished") => IsSuffix(last.remaining, chunk)
    /\ \A k \in 1..Len(tried) :
          /\ tried[k].res.t = "Finished" =>
                IsSuffix(tried[k].res.remaining, tried[k].input)
          /\ grammar.k = "unit" =>
                tried[k].res = Finished(Unit, tried[k].input)

\* a later call of a chain finishes inside its chunk
C20_Witness ==
    /\ calls >= 2 /\ last.t = "Finished"
    /\ last.remaining # <<>> /\ last.remaining # chunk
    /\ Len(fed) > Len(chunk)


----------------------------------------------------------------------------
(* The type-erasing wrapper: P.boxed() driven along its own state chain,   *)
(* beside P driven along its own over the same chunks.                     *)

\* the parsers boxed: those of BranchGrammars, a static sequence around a
\* boxed parser, and a boxed parser boxed again
BoxedGrammars ==
    {Boxed(p) : p \in BranchGrammars}
    \cup {Boxed(ThenParser(StaticLiteral(<<98>>),
                           Boxed([k |-> "int", min |-> 1, max |-> 25]))),
          Boxed(Boxed(StaticLiteral(<<97, 98, 99>>)))}

\* the candidate inputs offered to a boxed parser: those of the parser inside
RECURSIVE BoxedTokens(_)
BoxedTokens(g) ==
    CASE g.k = "boxed" -> BoxedTokens(g.parser)
      [] g.k = "then" -> BranchTokens(ThenNode(g.parser1, g.parser2))
      [] OTHER -> BranchTokens(g)

InitBoxed == \E g \in BoxedGrammars : Begin(g)

NextBoxed == \E input \in BoxedTokens(grammar) : Feed(input)

SpecBoxed == InitBoxed /\ [][NextBoxed]_vars

\* the outcome of the parser inside the box, fed the same chunks along its
\* own state chain
Unboxed == Run(grammar.parser, chunks)

\* C21: P.boxed() and P fed the same chunks agree call by call: Incomplete
\* together, with the same required_next and the boxed state holding P's new
\* state; Finished together, with the same output and the same remaining
\* bytes; failed together.  The wrapping touches the state of an Incomplete
\* result only and the output of a Finished one only.
C21_BoxedPreservesOutcome ==
    (grammar.k = "boxed" /\ calls > 0) =>
        /\ last.t = Unboxed.t
        /\ last.t = "Incomplete" =>
              /\ last.required_next = Unboxed.required_next
              /\ last.new_state = AnyState(StateType(grammar.parser), Unboxed.new_state)
              /\ AnyDowncast(grammar, last.new_state) = Some(Unboxed.new_state)
        /\ last.t = "Finished" =>
              /\ last.result = Unboxed.result
              /\ last.remaining = Unboxed.remaining
        /\ last.t \notin {"Incomplete", "Finished"} => last = Unboxed

\* a boxed repetition has finished on its third call, its progress carried
\* inside the boxed states of the two calls before
C21_Witness ==
    /\ grammar.k = "boxed" /\ grammar.parser.k = "repeat"
    /\ calls = 3 /\ status = "finished"
    /\ before.v # CreateParserState(grammar.parser)
    /\ last.result # <<>>

\* C22: along a boxed parser's own state chain, from create_parser_state
\* through the new_state of each Incomplete result, every state downcasts to
\* the wrapped parser's state type and no call returns the error "State is
\* not of the correct type".
C22_NoTypeMismatch ==
    grammar.k = "boxed" =>
        /\ AnyDowncast(grammar, state).some
        /\ AnyDowncast(grammar, before).some
        /\ last # StateIsNotOfTheCorrectType
        /\ (grammar.parser.k = "boxed" /\ status = "running") =>
              AnyDowncast(grammar.parser, state.v).some

\* a twice-boxed parser is two calls into its chain, on a state that is not
\* the initial one
C22_Witness ==
    /\ grammar.k = "boxed" /\ grammar.parser.k = "boxed"
    /\ calls = 2 /\ status = "running"
    /\ state # CreateParserState(grammar)
    /\ fed # <<>>

----------------------------------------------------------------------------
(* The facade's states against its grammar nodes (SpecStructure) *)

\* whether the state has the variant of the grammar node, and the states
\* inside it those of the node's sub-nodes
RECURSIVE VariantMatches(_, _)
VariantMatches(g, st) ==
    CASE g.k = "Literal" -> st.variant = "Literal"
      [] g.k = "Num" -> st.variant = (IF g.integer THEN "NumInt" ELSE "Num")
      [] g.k = "Either" ->
            /\ st.variant = "Either"
            /\ st.s.state1.ok => VariantMatches(g.first, st.s.state1.v)
            /\ st.s.state2.ok => VariantMatches(g.second, st.s.state2.v)
      [] g.k = "Then" ->
            /\ st.variant = "Then"
            /\ IF st.s.phase = "FirstParser" THEN VariantMatches(g.first, st.s.s)
               ELSE VariantMatches(g.second, st.s.s)
      [] OTHER -> FALSE

----------------------------------------------------------------------------
(* The static literal and sequence parsers driven on their own             *)

StaticBytes == {97, 98, 99, 49}

StaticLiterals ==
    {StaticLiteral(<<97>>), OwnedLiteral(<<97, 98>>), StaticLiteral(<<97, 98, 99>>),
     OwnedLiteral(<<97, 97, 98>>)}

StaticSequences ==
    {ThenParser(StaticLiteral(<<97>>), OwnedLiteral(<<98, 99>>)),
     ThenParser(OwnedLiteral(<<97, 98>>), StaticLiteral(<<99>>)),
     ThenParser(StaticLiteral(<<97>>), [k |-> "int", min |-> 1, max |-> 25]),
     ThenParser([k |-> "int", min |-> 1, max |-> 25], StaticLiteral(<<97, 98>>)),
     ThenParser([k |-> "unit"], StaticLiteral(<<97, 98>>)),
     ThenParser(ThenParser(StaticLiteral(<<97>>), OwnedLiteral(<<98>>)),
                StaticLiteral(<<99, 97>>))}

InitStatic == \E g \in StaticLiterals \cup StaticSequences : Begin(g)

NextStatic == \E input \in Inputs(StaticBytes, MaxChunkLen) : Feed(input)

SpecStatic == InitStatic /\ [][NextStatic]_vars

\* the first position where the bytes fed leave the literal, 0 if none does
\* within the literal's length
FirstMismatch(L, bytes) ==
    LET n == IF Len(bytes) < Len(L) THEN Len(bytes) ELSE Len(L)
        bad == {i \in 1..n : bytes[i] # L[i]}
    IN  IF bad = {} THEN 0 ELSE CHOOSE i \in bad : \A j \in bad : i <= j

\* C24: a LiteralParser does not see the chunking.  While the bytes fed are
\* a proper prefix L1 of the literal L = L1 ++ L2 the call is Incomplete with
\* required_next = L2; once they are L ++ R the call is Finished with
\* remaining R, as the single call on L ++ R is; and the call that brings the
\* first byte differing from the literal fails.
C24_LiteralChunkInvariant ==
    (grammar.k = "lit" /\ calls > 0) =>
        LET L == grammar.literal
            whole == Parse(grammar, CreateParserState(grammar), fed)
            i == FirstMismatch(L, fed)
        IN  /\ last = whole
            /\ (i = 0 /\ Len(fed) < Len(L)) =>
                  /\ last.t = "Incomplete"
                  /\ last.required_next.s = Tail0(L, Len(fed))
                  /\ last.new_state = [offset |-> Len(fed)]
            /\ (i = 0 /\ Len(fed) >= Len(L)) =>
                  last = Finished(Unit, Tail0(fed, Len(L)))
            /\ i > 0 =>
                  /\ last.t = "Err"
                  /\ i > Len(fed) - Len(chunk)

\* the literal "abc" got "ab" and then "c" with more behind it
C24_Witness ==
    /\ grammar.k = "lit" /\ grammar.literal = <<97, 98, 99>>
    /\ calls = 2 /\ chunks[1] = <<97, 98>>
    /\ before = [offset |-> 2]
    /\ last = Finished(Unit, <<49>>)

\* a literal has failed on the second byte of its second chunk
C24_CorruptedWitness ==
    /\ grammar.k = "lit" /\ calls = 2 /\ status = "failed"
    /\ FirstMismatch(grammar.literal, fed) = Len(fed)
    /\ Len(chunk) = 2 /\ Len(chunks[1]) = 1

\* the call at which the first parser of the sequence stopped being
\* Incomplete when run on its own over the chunks, 0 if it still is
FirstStops(g) ==
    LET done == {j \in 1..calls : Run(g.parser1, SubSeq(chunks, 1, j)).t # "Incomplete"}
    IN  IF done = {} THEN 0 ELSE CHOOSE j \in done : \A h \in done : j <= h

\* what the two parsers of the sequence give when run one after the other
\* by hand: the first over the chunks, the second over the first's
\* remaining bytes and then the chunks after it
ByHand(g) ==
    LET r1 == Run(g.parser1, chunks)
        j == FirstStops(g)
    IN  IF r1.t = "Incomplete"
        THEN Incomplete(FirstParser(r1.new_state), r1.required_next)
        ELSE IF r1.t = "Finished"
        THEN LET r2 == Run(g.parser2,
                           <<r1.remaining>> \o SubSeq(chunks, j + 1, calls))
             IN  IF r2.t = "Finished"
                 THEN Finished(<<r1.result, r2.result>>, r2.remaining)
                 ELSE IF r2.t = "Incomplete"
                 THEN Incomplete(SecondParser(r2.new_state, r1.result),
                                 r2.required_next)
                 ELSE r2
        ELSE r1

\* C25: in the call where its first parser finishes, the sequence gives the
\* first's remaining bytes to the second parser from its fresh state, within
\* that call, and finishes in it if the second does; while the first parser
\* is incomplete the sequence's required_next is the first's, afterwards it
\* is the second's.
C25_SequenceHandsOff ==
    (grammar.k = "then" /\ calls > 0) => last = ByHand(grammar)

\* one call has finished the first literal and taken the second one byte
\* in: the state is in the second phase and the hint is the second's
C25_Witness ==
    /\ grammar.k = "then" /\ grammar.parser2.k = "lit"
    /\ calls = 1 /\ status = "running"
    /\ state.phase = "SecondParser"
    /\ state.s # CreateParserState(grammar.parser2)
    /\ last.required_next = LiteralHint(grammar.parser2, <<99>>)

\* a sequence has finished within a single call
C25_OneCallWitness ==
    /\ grammar.k = "then" /\ calls = 1 /\ status = "finished"
    /\ Len(chunk) = 2 /\ last.remaining = <<>>

----------------------------------------------------------------------------
(* ToolManager::run_step: the reaction to the action that was generated.   *)
(* The generation loop is outside the sources at hand: what it returns is  *)
(* any Action of the manager's tools, or an error; what a tool's run       *)
(* returns is any text; add_token returns Ok or an error.                  *)

\* the texts of a thought, an answer, a line of tool input, a tool's result
StepTexts == SeqsUpTo({97, 55}, MaxChunkLen)

\* the values a tool's constraint can give as input
ToolInputs(tool) ==
    IF tool.constraints.k = "int" THEN tool.constraints.min..tool.constraints.max
    ELSE StepTexts

\* ToolManagerStepResult, and the error run_step may return instead
StepResult(variant, index, text) == [variant |-> variant, index |-> index, text |-> text]

\* a faulty variant: an answer is added as a token too, like a thought
RunStepEchoesAnswer(tools, generated, output, ok) ==
    /\ ~step.done
    /\ grammar = AnyActionConstraint(tools)
    /\ LET new_text == IF generated = Err THEN <<>>
                        ELSE IF generated.action = "Thought"
                        THEN generated.text \o <<NL>>
                        ELSE IF generated.action = "Tool" THEN output \o <<NL>>
                        ELSE generated.text \o <<NL>>
           runs == IF generated # Err /\ generated.action = "Tool"
                   THEN <<[index |-> generated.index, input |-> generated.input]>>
                   ELSE <<>>
           add_token == IF generated # Err /\ generated.action \in {"Thought", "Tool", "Answer"}
                        THEN <<new_text>> ELSE <<>>
           result == IF generated = Err THEN Err
                     ELSE IF add_token # <<>> /\ ~ok THEN Err
                     ELSE IF generated.action = "Thought"
                     THEN StepResult("Thought", 0, generated.text)
                     ELSE IF generated.action = "Tool"
                     THEN StepResult("Action", generated.index, output)
                     ELSE StepResult("Finished", 0, generated.text)
       IN  step' = [done |-> TRUE, tools |-> tools, generated |-> generated,
                    output |-> IF runs # <<>> THEN output ELSE <<>>,
                    ok |-> add_token # <<>> => ok,
                    runs |-> runs, add_token |-> add_token, result |-> result]
    /\ UNCHANGED <<grammar, state, before, status, last, chunks, tried, consumer>>

\* one call of run_step on a manager with these tools: generated is what
\* generate_structured returned, output what the tool's run returns if a tool
\* is run, ok whether add_token returns Ok if it is called
RunStep(tools, generated, output, ok) ==
    /\ ~step.done
    /\ grammar = AnyActionConstraint(tools)
    /\ LET new_text == IF generated = Err THEN <<>>
                        ELSE IF generated.action = "Thought"
                        THEN generated.text \o <<NL>>
                        ELSE IF generated.action = "Tool" THEN output \o <<NL>>
                        ELSE <<>>
           runs == IF generated # Err /\ generated.action = "Tool"
                   THEN <<[index |-> generated.index, input |-> generated.input]>>
                   ELSE <<>>
           add_token == IF generated # Err /\ generated.action \in {"Thought", "Tool"}
                        THEN <<new_text>> ELSE <<>>
           result == IF generated = Err THEN Err
                     ELSE IF add_token # <<>> /\ ~ok THEN Err
                     ELSE IF generated.action = "Thought"
                     THEN StepResult("Thought", 0, generated.text)
                     ELSE IF generated.action = "Tool"
                     THEN StepResult("Action", generated.index, output)
                     ELSE StepResult("Finished", 0, generated.text)
       IN  step' = [done |-> TRUE, tools |-> tools, generated |-> generated,
                    output |-> IF runs # <<>> THEN output ELSE <<>>,
                    ok |-> add_token # <<>> => ok,
                    runs |-> runs, add_token |-> add_token, result |-> result]
    /\ UNCHANGED <<grammar, state, before, status, last, chunks, tried, consumer>>

InitStep == \E tools \in ToolLists : Begin(AnyActionConstraint(tools))

\* generate_structured has returned an Action of the manager's tools, or an
\* error
NextStep ==
    \E tools \in ToolLists : \E output \in StepTexts : \E ok \in BOOLEAN :
        \/ \E t \in StepTexts : RunStep(tools, Thought(t), output, ok)
        \/ \E i \in 1..Len(tools) : \E x \in ToolInputs(tools[i]) :
              RunStep(tools, ToolAction(i - 1, x), output, ok)
        \/ \E a \in StepTexts : RunStep(tools, Answer(a), output, ok)
        \/ RunStep(tools, Err, output, ok)

SpecStep == InitStep /\ [][NextStep]_vars

\* C26: run_step reacts to the generated action as follows.  Thought(t):
\* add_token is called once, with t followed by "\n", no tool is run, and
\* Thought(t) is returned.  Tool{index, input}: the tool at that index is run
\* exactly once, on that input, add_token is called once with the tool's
\* result followed by "\n", and Action{index, output: result} is returned.
\* Answer(a): no tool is run, add_token is not called, Finished(a) is
\* returned.  (An error returned by add_token is returned by run_step in
\* place of the step result.)
C26_RunStepReactions ==
    (step.done /\ step.generated # Err) =>
        LET a == step.generated IN
        /\ a.action = "Thought" =>
              /\ step.add_token = <<a.text \o <<NL>>>>
              /\ step.runs = <<>>
              /\ step.result = IF step.ok THEN StepResult("Thought", 0, a.text) ELSE Err
        /\ a.action = "Tool" =>
              /\ step.runs = <<[index |-> a.index, input |-> a.input]>>
              /\ a.index + 1 \in 1..Len(step.tools)
              /\ step.add_token = <<step.output \o <<NL>>>>
              /\ step.result = IF step.ok THEN StepResult("Action", a.index, step.output)
                               ELSE Err
        /\ a.action = "Answer" =>
              /\ step.runs = <<>>
              /\ step.add_token = <<>>
              /\ step.result = StepResult("Finished", 0, a.text)

\* the second tool of two has been run on its input and its result returned
C26_Witness ==
    /\ step.done /\ step.generated # Err /\ step.generated.action = "Tool"
    /\ step.generated.index = 1 /\ Len(step.tools) = 2
    /\ step.ok /\ step.output # <<>>
    /\ step.result = StepResult("Action", 1, step.output)
    /\ Len(step.add_token) = 1

\* a thought and an answer have been reacted to
C26_ThoughtWitness ==
    /\ step.done /\ step.generated # Err /\ step.generated.action = "Thought"
    /\ step.generated.text # <<>> /\ step.ok

C26_AnswerWitness ==
    /\ step.done /\ step.generated # Err /\ step.generated.action = "Answer"
    /\ step.generated.text # <<>>

----------------------------------------------------------------------------
(* OneLine and blank lines (SpecOneLine) *)

\* the bytes fed before the first newline, all of them if there is none
BeforeNewline(bytes) ==
    LET nl == {i \in 1..Len(bytes) : bytes[i] = NL} IN
    IF nl = {} THEN bytes
    ELSE Head0(bytes, (CHOOSE i \in nl : \A j \in nl : i <= j) - 1)

AllWhitespace(bytes) == \A i \in 1..Len(bytes) : IsWhitespace(bytes[i])

\* C27: OneLine never finishes with an empty or whitespace-only line: when a
\* newline has been fed and the bytes before the first one are all
\* whitespace (none at all included), the chain has failed, however the
\* bytes were cut into chunks.
C27_NoBlankLine ==
    (grammar.k = "oneline" /\ calls > 0) =>
        /\ last.t = "Finished" =>
              (last.result # <<>> /\ ~AllWhitespace(last.result))
        /\ (NL \in {fed[i] : i \in 1..Len(fed)} /\ AllWhitespace(BeforeNewline(fed))) =>
              (status = "failed" /\ last.t = "Err")

\* a newline alone came after an empty chunk and failed the chain
C27_Witness ==
    /\ grammar.k = "oneline" /\ calls = 2
    /\ chunks = <<(<<>>), <<NL>>>>
    /\ status = "failed"

\* a space and a newline came in one chunk and failed the chain
C27_SpaceWitness ==
    /\ grammar.k = "oneline" /\ calls = 1
    /\ chunk = <<SPACE, NL>> /\ status = "failed"

----------------------------------------------------------------------------
(* RepeatParser and the cut of its input into chunks (SpecRepeat) *)

\* the sub-parsers that do not see the chunking themselves: a literal, and
\* a string with the filter that accepts every character
ChunkInvariantSub(p) == p.k = "lit" \/ (p.k = "string" /\ p.filter = "all")

\* the same final outcome: both Finished with the same outputs and the same
\* unconsumed bytes, both failed, or both still incomplete
SameFinalOutcome(r, whole) ==
    /\ r.t = whole.t
    /\ r.t = "Finished" => (r.result = whole.result /\ r.remaining = whole.remaining)

\* C28: a RepeatParser over a sub-parser that does not see the chunking does
\* not see it either: an input fed as two non-empty chunks ends as the same
\* input fed in one call does (as "aba" then "x" and "abax" for a literal
\* "ab" repeated 1..=3 times).
C28_RepeatChunkInvariant ==
    (/\ grammar.k = "repeat" /\ ChunkInvariantSub(grammar.parser)
     /\ calls = 2 /\ chunks[1] # <<>> /\ chunks[2] # <<>>) =>
        SameFinalOutcome(last, Parse(grammar, CreateParserState(grammar), fed))

\* "ab" repeated 1..=3 times got "aba" and then a byte that is not 'b': the
\* chain has failed, where the one call ends the repetition after one "ab"
C28_Witness ==
    /\ grammar.k = "repeat" /\ grammar.parser = StaticLiteral(<<97, 98>>)
    /\ grammar.min = 1 /\ grammar.max = 3
    /\ chunks = <<(<<97, 98, 97>>), <<97>>>>
    /\ last = Err
    /\ Parse(grammar, CreateParserState(grammar), fed) = Finished(<<Unit>>, <<97, 97>>)

\* the chunks of the chain that are not empty
NonEmptyChunks == SelectSeq(chunks, LAMBDA c : c # <<>>)

\* C29: an empty chunk changes nothing for a RepeatParser: parse(state, b"")
\* is Incomplete with new_state equal to state, and a chain that ends its
\* repetition gracefully without the empty chunks ends it so with them.
C29_EmptyChunkNoOp ==
    (grammar.k = "repeat" /\ calls > 0) =>
        /\ chunk = <<>> => (last.t = "Incomplete" /\ last.new_state = before)
        /\ (chunk # <<>> /\ Run(grammar, NonEmptyChunks).t = "Finished") =>
              last.t = "Finished"

\* "a" repeated 1..=3 times got "a", an empty chunk, and a byte that is not
\* 'a': the empty chunk marked an item as begun and the chain has failed,
\* where without the empty chunk the repetition ends after one "a"
C29_Witness ==
    /\ grammar.k = "repeat" /\ grammar.parser = StaticLiteral(<<97>>)
    /\ grammar.min = 1 /\ grammar.max = 3
    /\ chunks = <<(<<97>>), <<>>, <<98>>>>
    /\ before.new_state_in_progress
    /\ last = Err
    /\ Run(grammar, NonEmptyChunks) = Finished(<<Unit>>, <<98>>)

----------------------------------------------------------------------------
(* StringParser and the cut of its input, for every filter (SpecString) *)

\* C30: a StringParser does not see the chunking whatever its character
\* filter, one that accepts the backslash and rejects the quote included:
\* two chunks give what the one call on both gives, also when the cut falls
\* directly after a backslash.
C30_AnyFilterChunkInvariant ==
    (grammar.k = "string" /\ calls = 2) =>
        last = Parse(grammar, CreateParserState(grammar), chunks[1] \o chunks[2])

\* the filter rejects the quote; the opening quote and a backslash came in
\* the first chunk, the escaped quote in the second: the chain has failed,
\* where the one call keeps the quote as a character of the string
C30_Witness ==
    /\ grammar.k = "string" /\ grammar.filter = "noquote"
    /\ grammar.min = 0 /\ grammar.max = 1
    /\ chunks = <<(<<QUOTE, BACKSLASH>>), <<QUOTE>>>>
    /\ before.next_char_escaped
    /\ last = Err
    /\ Parse(grammar, CreateParserState(grammar), <<QUOTE, BACKSLASH, QUOTE>>).t
          = "Incomplete"

----------------------------------------------------------------------------
(* RepeatParser: the length of one call's loop (SpecRepeat) *)

\* whether the latest call probed the fresh sub-parser for a hint: its last
\* loop invocation finished a repetition at the end of the input, below max
Probed ==
    /\ LastTrace # <<>>
    /\ LastTrace[Len(LastTrace)].res.t = "Finished"
    /\ last.t = "Incomplete"

\* the sub-parser invocations of the latest call: those of the loop, and the
\* probe
Invocations == Len(LastTrace) + (IF Probed THEN 1 ELSE 0)

\* C31: every call of RepeatParser::parse terminates, after at most
\* len(input) + 2 invocations of the sub-parser, whatever the sub-parser
\* (one that finishes without consuming a byte included) and whatever the
\* range (0..=usize::MAX included).
C31_LoopIsBounded ==
    (grammar.k = "repeat" /\ calls > 0) =>
        /\ last # Diverges
        /\ Invocations <= Len(chunk) + 2

\* the unit parser repeated 0..=usize::MAX times was given one byte: the
\* loop is past the bound, every invocation has finished on the same byte
\* and added an output
C31_Witness ==
    /\ grammar.k = "repeat" /\ grammar.parser.k = "unit" /\ grammar.max = UsizeMax
    /\ calls = 1 /\ chunk = <<97>>
    /\ Len(LastTrace) > Len(chunk) + 2
    /\ \A j \in 1..Len(LastTrace) :
          LastTrace[j].res = Finished(Unit, <<97>>) /\ LastTrace[j].given = <<97>>
    /\ status = "diverged"

----------------------------------------------------------------------------
(* IndexParser over no alternatives (SpecIndex) *)

\* C32: an IndexParser built on an empty list of alternatives fails every
\* parse call: it neither panics on the computation of the last index nor
\* returns Incomplete.
C32_EmptyIndexFails ==
    (grammar.k = "index" /\ Len(grammar.parsers) = 0 /\ calls > 0) =>
        (last.t = "Err" /\ status = "failed")

\* in a build with overflow checks the call on the empty list has panicked
C32_Witness ==
    /\ grammar.k = "index" /\ grammar.parsers = <<>> /\ grammar.overflow_checks
    /\ calls = 1 /\ chunk # <<>>
    /\ last = SubtractWithOverflow /\ status = "panicked"

\* in a build without, the calls on the empty list keep returning Incomplete
\* with a state that holds no alternative
C32_WrappedWitness ==
    /\ grammar.k = "index" /\ grammar.parsers = <<>> /\ ~grammar.overflow_checks
    /\ calls = MaxCalls /\ fed # <<>>
    /\ last = Incomplete([states |-> <<>>], DefaultHint) /\ status = "running"

----------------------------------------------------------------------------
(* ToolManager: the registered tools and the index of a tool action        *)
(* (SpecTool)                                                              *)

\* ToolManager::add_tool: self.tools.push(..)
AddTool(tools, tool) == Append(tools, tool)

\* the manager after ToolManager::new() and the add_tool calls of adds, in
\* order
RECURSIVE Registered(_)
Registered(adds) ==
    IF adds = <<>> THEN <<>>
    ELSE AddTool(Registered(SubSeq(adds, 1, Len(adds) - 1)), adds[Len(adds)])

\* ToolManager::get_tool_mut_by_index: self.tools.get_mut(index)
GetToolMutByIndex(tools, index) ==
    IF index < Len(tools) THEN Some(tools[index + 1]) ELSE None

\* the sequences of add_tool calls followed: up to three, of the two tools
ToolAdds == SeqsUpTo({WebSearchTool, DigitTool}, MaxCalls)

\* the tools of the manager whose action grammar is under test
ManagerOf(g) == CHOOSE tools \in ToolLists : g = AnyActionConstraint(tools)

\* C33: tool_choices is None exactly when no tool is registered; otherwise
\* its alternative i is the grammar of the i-th tool added, for every
\* sequence of add_tool calls; and the index of a finished Action::Tool
\* resolves through get_tool_mut_by_index to the tool whose name and input
\* prompt the text matched.
C33_IndexResolvesToMatchedTool ==
    /\ \A adds \in ToolAdds :
          LET tools == Registered(adds)
              choices == ToolChoices(tools)
          IN  /\ tools = adds
              /\ choices.some <=> adds # <<>>
              /\ choices.some =>
                    /\ Len(choices.v.parser.parsers) = Len(adds)
                    /\ \A i \in 1..Len(adds) :
                          choices.v.parser.parsers[i] = ToolInputParser(adds[i])
    /\ (grammar.k = "boxed" /\ status = "finished" /\ last.result.action = "Tool") =>
          LET tool == GetToolMutByIndex(ManagerOf(grammar), last.result.index) IN
          /\ tool.some
          /\ StartsWith(fed, ActionPrefix \o ToolHeader(tool.v))

\* with two tools registered, the second one's name and prompt were matched
\* and its index came out
C33_Witness ==
    /\ grammar.k = "boxed" /\ status = "finished" /\ last.result.action = "Tool"
    /\ Len(ManagerOf(grammar)) = 2
    /\ last.result.index = 1
    /\ StartsWith(fed, ActionPrefix \o ToolHeader(ManagerOf(grammar)[2]))

(***************************************************************************)
(* threading::Consumer: a queue of items drained by options.threads worker *)
(* threads.  The shared fields are atomics (or the started mutex), so each *)
(* load, store, fetch_sub, push and pop is one step, and the steps of the  *)
(* threads interleave.                                                     *)
(***************************************************************************)

\* options.threads of the Consumer under study
Threads == 2

\* the items the producer thread offers to enqueue, in order 1, 2, ..
MaxItems == 2

\* the calls of start() made on the Consumer
MaxStarts == 2

Workers == 1..Threads

ItemIds == 1..MaxItems

\* Consumer::new: the fields, with the bookkeeping of the threads around them
\* (pc and item per worker, the producer inside enqueue, the thread inside
\* wait) and of the delegate (what it processed and what it has been told)
NewConsumer ==
    [made |-> TRUE,
     started |-> FALSE, finished |-> FALSE, completed |-> FALSE,
     paused |-> FALSE, cancelled |-> FALSE, consumers |-> 0, running |-> 0,
     items |-> <<>>,
     pc |-> [w \in Workers |-> "unspawned"],
     item |-> [w \in Workers |-> 0],
     enqueue |-> "idle", sent |-> 0, accepted |-> {},
     wait |-> "idle",
     processed |-> [i \in ItemIds |-> 0], refused |-> FALSE,
     on_started |-> 0, on_finished |-> 0, on_cancelled |-> 0,
     finished_stores |-> 0, starts |-> 0, spawned |-> 0]

\* set_started(value) under the started mutex: the new content of the flag
\* and the value returned
SetStarted(started, value) ==
    IF started /\ value
    THEN [started |-> started, ret |-> FALSE]
    ELSE [started |-> TRUE, ret |-> TRUE]

\* the variables of the parser engine, which a Consumer never touches
ParserVars == <<grammar, state, before, status, last, chunks, tried, step>>

\* start(delegate): panics on a cancelled or a drained completed queue,
\* returns at once if already started, else sets the consumer count, tells
\* the delegate and spawns the workers
Start ==
    /\ consumer.starts < MaxStarts
    /\ IF consumer.cancelled \/ (consumer.completed /\ consumer.items = <<>>)
       THEN consumer' = [consumer EXCEPT !.starts = @ + 1]
       ELSE LET s == SetStarted(consumer.started, TRUE) IN
            IF ~s.ret
            THEN consumer' = [consumer EXCEPT !.starts = @ + 1,
                                              !.started = s.started]
            ELSE consumer' = [consumer EXCEPT !.starts = @ + 1,
                                              !.started = s.started,
                                              !.consumers = Threads,
                                              !.on_started = @ + 1,
                                              !.spawned = @ + Threads,
                                              !.pc = [w \in Workers |-> "loop"]]
    /\ UNCHANGED ParserVars

\* the head of a worker's loop: break, sleep while paused, or go to dequeue
WorkerLoop(w) ==
    /\ consumer.pc[w] = "loop"
    /\ consumer' =
         IF consumer.cancelled \/ (consumer.items = <<>> /\ consumer.completed)
         THEN [consumer EXCEPT !.pc[w] = "dec_consumers"]
         ELSE IF consumer.paused THEN consumer
         ELSE [consumer EXCEPT !.pc[w] = "deq"]
    /\ UNCHANGED ParserVars

\* dequeue_wait: blocks on items_cond while the queue is empty and neither
\* cancelled nor completed; then None (back to the head of the loop) or the
\* popped item.  A woken waiter that returns None on completed goes back to
\* the head of the loop as well, which tests the same fields again.
WorkerDeq(w) ==
    /\ consumer.pc[w] = "deq"
    /\ ~(consumer.items = <<>> /\ ~consumer.cancelled /\ ~consumer.completed)
    /\ consumer' =
         IF consumer.items = <<>> \/ consumer.cancelled
         THEN [consumer EXCEPT !.pc[w] = "loop"]
         ELSE [consumer EXCEPT !.items = Tail(@),
                               !.item[w] = Head(consumer.items),
                               !.running = @ + 1,
                               !.pc[w] = "process"]
    /\ UNCHANGED ParserVars

\* delegate.process on the item, then delegate.on_completed, whose answer
\* keep decides between the next round and the break
WorkerProcess(w, keep) ==
    /\ consumer.pc[w] = "process"
    /\ consumer' = [consumer EXCEPT !.processed[consumer.item[w]] = @ + 1,
                                    !.item[w] = 0,
                                    !.running = @ - 1,
                                    !.refused = @ \/ ~keep,
                                    !.pc[w] = IF keep THEN "loop"
                                              ELSE "dec_consumers"]
    /\ UNCHANGED ParserVars

\* dec_consumers, first half: consumers.fetch_sub(1)
WorkerDecConsumers(w) ==
    /\ consumer.pc[w] = "dec_consumers"
    /\ consumer' = [consumer EXCEPT !.consumers = @ - 1,
                                    !.pc[w] = "check_finished"]
    /\ UNCHANGED ParserVars

\* check_finished: return unless no consumer is left and the queue is
\* completed or cancelled; else store completed and finished, tell the
\* delegate, set_started(false) and notify the waiters
WorkerCheckFinished(w) ==
    /\ consumer.pc[w] = "check_finished"
    /\ consumer' =
         IF consumer.consumers > 0
            \/ (~consumer.completed /\ ~consumer.cancelled)
         THEN [consumer EXCEPT !.pc[w] = "exited"]
         ELSE [consumer EXCEPT
                 !.completed = TRUE,
                 !.finished = TRUE,
                 !.finished_stores = @ + 1,
                 !.on_cancelled = IF consumer.cancelled THEN @ + 1 ELSE @,
                 !.on_finished = IF consumer.cancelled THEN @ ELSE @ + 1,
                 !.started = SetStarted(consumer.started, FALSE).started,
                 !.pc[w] = "exited"]
    /\ UNCHANGED ParserVars

\* one step of worker thread w
Worker(w) ==
    \/ WorkerLoop(w)
    \/ WorkerDeq(w)
    \/ \E keep \in BOOLEAN : WorkerProcess(w, keep)
    \/ WorkerDecConsumers(w)
    \/ WorkerCheckFinished(w)

\* enqueue(item), the two loads: Err if cancelled or completed
EnqueueCheck ==
    /\ consumer.enqueue = "idle"
    /\ consumer.sent < MaxItems
    /\ consumer' =
         IF consumer.cancelled \/ consumer.completed
         THEN [consumer EXCEPT !.sent = @ + 1]
         ELSE [consumer EXCEPT !.enqueue = "push"]
    /\ UNCHANGED ParserVars

\* enqueue(item), the rest: items.push(item), notify, Ok(())
EnqueuePush ==
    /\ consumer.enqueue = "push"
    /\ consumer' = [consumer EXCEPT !.items = Append(@, consumer.sent + 1),
                                    !.accepted = @ \cup {consumer.sent + 1},
                                    !.sent = @ + 1,
                                    !.enqueue = "idle"]
    /\ UNCHANGED ParserVars

Complete ==
    /\ consumer' = [consumer EXCEPT !.completed = TRUE]
    /\ UNCHANGED ParserVars

Cancel ==
    /\ consumer' = [consumer EXCEPT !.cancelled = TRUE]
    /\ UNCHANGED ParserVars

Pause ==
    /\ consumer' = [consumer EXCEPT !.paused = TRUE]
    /\ UNCHANGED ParserVars

Resume ==
    /\ consumer' = [consumer EXCEPT !.paused = FALSE]
    /\ UNCHANGED ParserVars

\* a thread calls wait() and blocks in finished_cond.wait_while
WaitCall ==
    /\ consumer.wait = "idle"
    /\ consumer' = [consumer EXCEPT !.wait = "waiting"]
    /\ UNCHANGED ParserVars

\* wait() returns: the condition "neither cancelled nor finished" is over
WaitReturn ==
    /\ consumer.wait = "waiting"
    /\ consumer.cancelled \/ consumer.finished
    /\ consumer' = [consumer EXCEPT
                      !.wait = IF consumer.cancelled THEN "Err" ELSE "Ok"]
    /\ UNCHANGED ParserVars

InitConsumer ==
    /\ grammar = [k |-> "none"]
    /\ state = None
    /\ before = None
    /\ status = "idle"
    /\ last = [t |-> "None"]
    /\ chunks = <<>>
    /\ tried = <<>>
    /\ step = NoStep
    /\ consumer = NewConsumer

NextConsumer ==
    \/ Start
    \/ \E w \in Workers : Worker(w)
    \/ EnqueueCheck
    \/ EnqueuePush
    \/ Complete
    \/ Cancel
    \/ Pause
    \/ Resume
    \/ WaitCall
    \/ WaitReturn

SpecConsumer == InitConsumer /\ [][NextConsumer]_vars

\* every worker of this run has left its thread
AllExited == \A w \in Workers : consumer.pc[w] = "exited"

\* C34: in every interleaving of the workers' exits, the delegate is told at
\* most once that the run is over (on_finished or on_cancelled, never both,
\* never twice) and finished is stored at most once; and a run that is over
\* with finished set has told the delegate exactly once.
C34_FinishesOnce ==
    /\ consumer.on_finished + consumer.on_cancelled <= 1
    /\ consumer.finished_stores <= 1
    /\ consumer.finished => consumer.on_finished + consumer.on_cancelled = 1

\* a run of two workers that is over: both have left and finished is set
C34_Witness ==
    /\ AllExited
    /\ consumer.finished
    /\ consumer.on_finished + consumer.on_cancelled >= 1

\* the Consumer of the completion claim: started, fed and completed by its
\* owner, never paused and never cancelled
NextLive ==
    \/ Start
    \/ \E w \in Workers : Worker(w)
    \/ EnqueueCheck
    \/ EnqueuePush
    \/ Complete
    \/ WaitCall
    \/ WaitReturn

\* the operating system runs every thread that can take a step: each spawned
\* worker, the producer inside enqueue and the thread blocked in wait
FairThreads ==
    /\ \A w \in Workers : WF_vars(Worker(w))
    /\ WF_vars(EnqueuePush)
    /\ WF_vars(WaitReturn)

SpecConsumerFair == InitConsumer /\ [][NextLive]_vars /\ FairThreads

\* C35: under fair scheduling, for every behaviour of the delegate, a started
\* Consumer that is never paused or cancelled and on which complete() has
\* been called eventually has finished set, and a wait() on it then returns
\* Ok.
C35_CompletionIsLive ==
    /\ (consumer.started /\ consumer.completed) ~> consumer.finished
    /\ (consumer.started /\ consumer.completed /\ consumer.wait = "waiting")
          ~> (consumer.wait = "Ok")

\* the same for the delegates whose on_completed has not returned false
C35_CompletionIsLiveUnlessRefused ==
    /\ (consumer.started /\ consumer.completed)
          ~> (consumer.finished \/ consumer.refused)
    /\ (consumer.started /\ consumer.completed /\ consumer.wait = "waiting")
          ~> (consumer.wait = "Ok" \/ consumer.refused)

\* complete() has been called on a started Consumer all of whose workers
\* left their loops on an on_completed that returned false: nobody is left
\* to run check_finished, and a thread is blocked in wait()
C35_Witness ==
    /\ consumer.started
    /\ consumer.completed
    /\ ~consumer.finished
    /\ AllExited
    /\ consumer.refused
    /\ consumer.wait = "waiting"

\* C36: no item is processed twice; and once finished is set on a Consumer
\* that was not cancelled and whose on_completed never returned false, every
\* item whose enqueue returned Ok has been processed exactly once and the
\* queue is empty, whatever the interleaving of enqueue, complete() and the
\* workers.
C36_NoItemLostOrDuplicated ==
    /\ \A i \in ItemIds : consumer.processed[i] <= 1
    /\ (consumer.finished /\ ~consumer.cancelled /\ ~consumer.refused)
          => /\ consumer.items = <<>>
             /\ \A i \in consumer.accepted : consumer.processed[i] = 1

\* the part of C36 about duplication alone
C36_NoItemDuplicated == \A i \in ItemIds : consumer.processed[i] <= 1

\* the part of C36 about loss, for the enqueue calls that returned before
\* complete() was called: accepted items are never dropped from the queue
\* unprocessed
C36_AcceptedStaysUntilProcessed ==
    \A i \in consumer.accepted :
        \/ consumer.processed[i] = 1
        \/ \E w \in Workers : consumer.item[w] = i
        \/ \E k \in 1..Len(consumer.items) : consumer.items[k] = i

\* an enqueue that returned Ok although the run is over: the item sits in
\* the queue of a finished Consumer that was never paused or cancelled
C36_Witness ==
    /\ consumer.finished
    /\ ~consumer.cancelled
    /\ ~consumer.paused
    /\ ~consumer.refused
    /\ consumer.items # <<>>
    /\ AllExited
    /\ consumer.enqueue = "idle"

\* a worker thread of the Consumer is running
SomeWorkerRuns == \E w \in Workers : consumer.pc[w] \notin {"unspawned", "exited"}

\* is_started() is false before the first start() and true while workers run
C37_StartedBeforeAndDuring ==
    /\ consumer.starts = 0 => ~consumer.started
    /\ SomeWorkerRuns => consumer.started

\* a start() on a Consumer that is_started() spawns no worker and leaves the
\* running workers alone
C37_SecondStartSpawnsNone ==
    [][(consumer.started /\ consumer'.starts = consumer.starts + 1)
          => /\ consumer'.spawned = consumer.spawned
             /\ consumer'.pc = consumer.pc
             /\ consumer'.consumers = consumer.consumers]_vars

\* C37: the started flag tracks the run: is_started() is false before start,
\* true while workers are running, and false again once the finish sequence
\* has run and the workers have left; and a second start() while started
\* spawns no additional workers.
C37_StartedTracksRun ==
    /\ [](C37_StartedBeforeAndDuring
          /\ ((consumer.finished /\ AllExited) => ~consumer.started))
    /\ C37_SecondStartSpawnsNone

\* the run is over: finished is set by check_finished, which has called
\* set_started(false), and every worker has left
C37_Witness ==
    /\ consumer.finished
    /\ AllExited
    /\ consumer.started
    /\ consumer.starts = MaxStarts
    /\ consumer.spawned = Threads

\* C38: for every byte string s that StringParser takes as an incomplete
\* prefix (s starts with the quote), StringParserState::new(s) is the state
\* reached by parsing s from the default state, in progress, accumulated
\* string and pending escape, and a next call gives the same result from
\* either state.
C38_NewAgreesWithParse ==
    (grammar.k = "string" /\ status = "running" /\ fed # <<>>) =>
        /\ StringParserStateNew(fed) = state
        /\ \A input \in SeqsUpTo(StringBytes, 1) :
              Parse(grammar, StringParserStateNew(fed), input)
                 = Parse(grammar, state, input)

\* the part of C38 that holds: the two routes agree on the progress
C38_SameProgress ==
    (grammar.k = "string" /\ status = "running" /\ fed # <<>>) =>
        StringParserStateNew(fed).progress = state.progress

\* the prefix "a has been parsed from the default state: the string so far is
\* a, while StringParserState::new of the prefix holds "a
C38_Witness ==
    /\ grammar.k = "string" /\ status = "running"
    /\ fed = <<QUOTE, 97>>
    /\ state.progress = "InString"
    /\ state.string = <<97>>
    /\ StringParserStateNew(fed).string = <<QUOTE, 97>>

\* the prefix ending in an escaped backslash: parsing has no escape pending,
\* StringParserState::new reads one off the last byte
C38_EscapeWitness ==
    /\ grammar.k = "string" /\ status = "running"
    /\ fed = <<QUOTE, BACKSLASH, BACKSLASH>>
    /\ ~state.next_char_escaped
    /\ StringParserStateNew(fed).next_char_escaped

=============================================================================
